---- MODULE Spec2Model ----
(***************************************************************************)
(* A model of the analytics core of kb-de:                                 *)
(*   app/analytics/trend_analyzer.py  (TrendAnalyzer, main)                *)
(*   app/analytics/analytics.py       (hourly aggregation)                 *)
(*   dagster_home/trend_analyzer_dagster.py (trend_analyzer_op)            *)
(*                                                                         *)
(* Numbers.  Python floats are modelled by exact rationals <<n, d>> with   *)
(* d > 0; a coefficient of variation (a quotient with a square root) is a  *)
(* signed root [sign, sq]: sign * sqrt(sq).  Comparisons are made by cross *)
(* multiplication, so the model is exact where the code rounds in binary.  *)
(***************************************************************************)
EXTENDS Integers, Sequences, FiniteSets, TLC

VARIABLES
    cls,        \* the classifier harness: inputs of _classify_trend and its result
    stats,      \* the harness of the statistics helpers: a series, the helper
                \* called on it and what it returned
    trends,     \* the biometric_trends table
    clock,      \* datetime.now(), in ticks
    lastUnit,   \* the last call of analyze_patient_trend: its arguments, what it
                \* found, the helper calls it made and how it ended
    race,       \* concurrent calls of _store_trend for one key: where each
                \* session is and what it holds uncommitted
    patients,   \* the ids of the patients table
    batch,      \* trend_analyzer_op / analyze_all_patients: where the run is
    audit,      \* what the run has done so far (calls of each unit, failures seen)
    pager,      \* the generator of _get_patients: its offset, the page it is
                \* yielding from, the patients yielded and the queries made
    etl,        \* process_biometrics on one file: the chunks still to load, the
                \* committed rows and the rows of the open transaction
    biometrics, \* the biometrics table (raw readings)
    summary,    \* the patient_biometric_hourly_summary table
    lastAgg,    \* the last run of analytics_aggregate_biometrics
    firstAgg,   \* the summary table as the first completed run left it
    hourly      \* a call of aggregate_hourly: its frame and its result

vars == <<cls, stats, trends, clock, lastUnit, race, patients, batch, audit, pager,
          etl, biometrics, summary, lastAgg, firstAgg, hourly>>

aggVars == <<biometrics, summary, lastAgg, firstAgg, hourly>>

batchVars == <<patients, batch, audit, pager, etl>>

clsVars == <<cls, stats>>

unitVars == <<trends, clock, lastUnit, race>>

-----------------------------------------------------------------------------
(* Exact arithmetic                                                        *)

Abs(x) == IF x < 0 THEN -x ELSE x

Sgn(x) == IF x < 0 THEN -1 ELSE IF x > 0 THEN 1 ELSE 0

RECURSIVE GCD(_, _)
GCD(a, b) == IF b = 0 THEN a ELSE GCD(b, a % b)

\* a rational in lowest terms with a positive denominator
Rat(n, d) ==
    LET sn == IF d < 0 THEN -n ELSE n
        sd == Abs(d)
        g  == GCD(Abs(sn), sd)
    IN  <<sn \div g, sd \div g>>

RatLt(a, b) == a[1] * b[2] < b[1] * a[2]

RatGt(a, b) == RatLt(b, a)

RatEq(a, b) == a[1] * b[2] = b[1] * a[2]

RatAbs(a) == <<Abs(a[1]), a[2]>>

RatMul(a, b) == Rat(a[1] * b[1], a[2] * b[2])

RatAdd(a, b) == Rat(a[1] * b[2] + b[1] * a[2], a[2] * b[2])

RatSub(a, b) == Rat(a[1] * b[2] - b[1] * a[2], a[2] * b[2])

\* a / b for b # 0
RatDiv(a, b) == Rat(a[1] * b[2], a[2] * b[1])

RatOfInt(k) == <<k, 1>>

Zero == RatOfInt(0)

RECURSIVE RatSum(_)
RatSum(s) == IF s = <<>> THEN Zero ELSE RatAdd(Head(s), RatSum(Tail(s)))

\* np.mean of a non-empty sequence of rationals
Mean(s) == RatDiv(RatSum(s), RatOfInt(Len(s)))

\* np.sum((s - c) ** 2)
SumSqDev(s, c) ==
    RatSum([i \in 1..Len(s) |-> RatMul(RatSub(s[i], c), RatSub(s[i], c))])

\* the signed root sign * sqrt(sq) that equals the rational a
RootOfRat(a) == [sign |-> Sgn(a[1]), sq |-> RatMul(a, a)]

\* sign * sqrt(sq) > b, decided without taking the root
RootGtRat(v, b) ==
    IF Sgn(b[1]) >= 0
    THEN v.sign > 0 /\ RatGt(v.sq, RatMul(b, b))
    ELSE v.sign >= 0 \/ RatLt(v.sq, RatMul(b, b))

-----------------------------------------------------------------------------
(* TrendAnalyzer: class constants and the classifier                       *)

BIOMETRIC_TYPES == <<"glucose", "weight", "blood_pressure">>

BiometricTypeSet == {BIOMETRIC_TYPES[i] : i \in 1..Len(BIOMETRIC_TYPES)}

\* STABILITY_THRESHOLDS.get(biometric_type, 0.1)
STABILITY_THRESHOLDS(biometric_type) ==
    CASE biometric_type = "glucose"        -> Rat(1, 10)
      [] biometric_type = "weight"         -> Rat(3, 100)
      [] biometric_type = "blood_pressure" -> Rat(7, 100)
      [] OTHER                             -> Rat(1, 10)

R_SQUARED_CUTOFF == Rat(7, 10)

\* mutants of _classify_trend
ClassifyTrend_VolatileAtBoundary(biometric_type, analysis_results) ==
    LET linear     == analysis_results.linear_trend
        pct_change == analysis_results.percentage_change
        volatility == analysis_results.volatility
        threshold  == STABILITY_THRESHOLDS(biometric_type)
        bound      == RatMul(threshold, RatOfInt(2))
    IN  IF RootGtRat(volatility, bound)
           \/ (volatility.sign > 0 /\ RatEq(volatility.sq, RatMul(bound, bound)))
        THEN "volatile"
        ELSE IF RatLt(RatAbs(linear.slope), threshold)
                /\ RatLt(RatAbs(pct_change), RatMul(threshold, RatOfInt(10)))
        THEN "stable"
        ELSE IF (RatGt(linear.slope, Zero) /\ RatGt(pct_change, Zero))
                \/ (RatGt(linear.r_squared, R_SQUARED_CUTOFF) /\ RatGt(linear.slope, Zero))
        THEN "increasing"
        ELSE IF (RatLt(linear.slope, Zero) /\ RatLt(pct_change, Zero))
                \/ (RatGt(linear.r_squared, R_SQUARED_CUTOFF) /\ RatLt(linear.slope, Zero))
        THEN "decreasing"
        ELSE "stable"

ClassifyTrend_NoRSquared(biometric_type, analysis_results) ==
    LET linear     == analysis_results.linear_trend
        pct_change == analysis_results.percentage_change
        volatility == analysis_results.volatility
        threshold  == STABILITY_THRESHOLDS(biometric_type)
    IN  IF RootGtRat(volatility, RatMul(threshold, RatOfInt(2)))
        THEN "volatile"
        ELSE IF RatLt(RatAbs(linear.slope), threshold)
                /\ RatLt(RatAbs(pct_change), RatMul(threshold, RatOfInt(10)))
        THEN "stable"
        ELSE IF RatGt(linear.slope, Zero) /\ RatGt(pct_change, Zero)
        THEN "increasing"
        ELSE IF RatLt(linear.slope, Zero) /\ RatLt(pct_change, Zero)
        THEN "decreasing"
        ELSE "stable"

\* mutant: the volatility rule comes after the direction rules
ClassifyTrend_VolatileLast(biometric_type, analysis_results) ==
    LET linear     == analysis_results.linear_trend
        pct_change == analysis_results.percentage_change
        volatility == analysis_results.volatility
        threshold  == STABILITY_THRESHOLDS(biometric_type)
    IN  IF RatLt(RatAbs(linear.slope), threshold)
           /\ RatLt(RatAbs(pct_change), RatMul(threshold, RatOfInt(10)))
        THEN "stable"
        ELSE IF (RatGt(linear.slope, Zero) /\ RatGt(pct_change, Zero))
                \/ (RatGt(linear.r_squared, R_SQUARED_CUTOFF) /\ RatGt(linear.slope, Zero))
        THEN "increasing"
        ELSE IF (RatLt(linear.slope, Zero) /\ RatLt(pct_change, Zero))
                \/ (RatGt(linear.r_squared, R_SQUARED_CUTOFF) /\ RatLt(linear.slope, Zero))
        THEN "decreasing"
        ELSE IF RootGtRat(volatility, RatMul(threshold, RatOfInt(2)))
        THEN "volatile"
        ELSE "stable"

\* mutant: a decomposition that returned a result decides the label
ClassifyTrend_SeasonalDecides(biometric_type, analysis_results) ==
    LET linear     == analysis_results.linear_trend
        pct_change == analysis_results.percentage_change
        volatility == analysis_results.volatility
        threshold  == STABILITY_THRESHOLDS(biometric_type)
    IN  IF analysis_results.seasonal_decomposition # "None"
        THEN "volatile"
        ELSE IF RootGtRat(volatility, RatMul(threshold, RatOfInt(2)))
        THEN "volatile"
        ELSE IF RatLt(RatAbs(linear.slope), threshold)
                /\ RatLt(RatAbs(pct_change), RatMul(threshold, RatOfInt(10)))
        THEN "stable"
        ELSE IF (RatGt(linear.slope, Zero) /\ RatGt(pct_change, Zero))
                \/ (RatGt(linear.r_squared, R_SQUARED_CUTOFF) /\ RatGt(linear.slope, Zero))
        THEN "increasing"
        ELSE IF (RatLt(linear.slope, Zero) /\ RatLt(pct_change, Zero))
                \/ (RatGt(linear.r_squared, R_SQUARED_CUTOFF) /\ RatLt(linear.slope, Zero))
        THEN "decreasing"
        ELSE "stable"

\* TrendAnalyzer._classify_trend
ClassifyTrend(biometric_type, analysis_results) ==
    LET linear     == analysis_results.linear_trend
        pct_change == analysis_results.percentage_change
        volatility == analysis_results.volatility
        threshold  == STABILITY_THRESHOLDS(biometric_type)
    IN  IF RootGtRat(volatility, RatMul(threshold, RatOfInt(2)))
        THEN "volatile"
        ELSE IF RatLt(RatAbs(linear.slope), threshold)
                /\ RatLt(RatAbs(pct_change), RatMul(threshold, RatOfInt(10)))
        THEN "stable"
        ELSE IF (RatGt(linear.slope, Zero) /\ RatGt(pct_change, Zero))
                \/ (RatGt(linear.r_squared, R_SQUARED_CUTOFF) /\ RatGt(linear.slope, Zero))
        THEN "increasing"
        ELSE IF (RatLt(linear.slope, Zero) /\ RatLt(pct_change, Zero))
                \/ (RatGt(linear.r_squared, R_SQUARED_CUTOFF) /\ RatLt(linear.slope, Zero))
        THEN "decreasing"
        ELSE "stable"

-----------------------------------------------------------------------------
(* Measurements (rows of the biometrics table, as a query returns them)    *)

\* a nullable column that holds no value (Biometric.value, systolic, diastolic)
NULL == -1

\* TREND_WINDOW = timedelta(hours=5)
TREND_WINDOW_HOURS == 5

MIN_DATA_POINTS == 2

SECONDS_PER_HOUR == 3600

HOURS_PER_DAY == 24

NoLabel == "none"

TrendLabels == {"increasing", "decreasing", "stable", "volatile", "insufficient_data"}

-----------------------------------------------------------------------------
(* Statistics primitives.  Timestamps are whole hours; the code's x axis   *)
(* is in seconds, so x = SECONDS_PER_HOUR * hours.                         *)

\* [ts.timestamp() for ts in timestamps], then x - x.min()
XNorm(timestamps) ==
    LET lo == CHOOSE m \in {timestamps[i] : i \in 1..Len(timestamps)} :
                  \A i \in 1..Len(timestamps) : m <= timestamps[i]
    IN  [i \in 1..Len(timestamps) |-> RatOfInt(SECONDS_PER_HOUR * (timestamps[i] - lo))]

\* the line through the sums of a least-squares problem: slope from the normal
\* equations, intercept from the means
FittedLine(n, sx, sy, slope) ==
    [slope |-> slope, intercept |-> RatDiv(RatSub(sy, RatMul(slope, sx)), n)]

\* d = n * sum(x^2) - sum(x)^2 is 0 when all x are equal: lstsq then returns
\* the minimum-norm solution, slope 0 and the mean
SolveNormalEquations(n, sx, sy, sxy, d) ==
    IF RatEq(d, Zero)
    THEN [slope |-> Zero, intercept |-> RatDiv(sy, n)]
    ELSE FittedLine(n, sx, sy, RatDiv(RatSub(RatMul(n, sxy), RatMul(sx, sy)), d))

LeastSquaresOfSums(n, sx, sy, sxx, sxy) ==
    SolveNormalEquations(n, sx, sy, sxy, RatSub(RatMul(n, sxx), RatMul(sx, sx)))

\* np.linalg.lstsq(A, y, rcond=None)[0] for A = np.vstack([x, ones]).T
LeastSquares(x, y) ==
    LeastSquaresOfSums(RatOfInt(Len(x)), RatSum(x), RatSum(y),
                       RatSum([i \in 1..Len(x) |-> RatMul(x[i], x[i])]),
                       RatSum([i \in 1..Len(x) |-> RatMul(x[i], y[i])]))

\* 1 - (ss_res / ss_tot) if ss_tot != 0 else 0
RSquaredOf(ss_res, ss_tot) ==
    IF ~RatEq(ss_tot, Zero)
    THEN RatSub(RatOfInt(1), RatDiv(ss_res, ss_tot))
    ELSE Zero

\* np.sum((y - y_pred) ** 2)
SumSqDiff(y, y_pred) ==
    RatSum([i \in 1..Len(y) |->
               RatMul(RatSub(y[i], y_pred[i]), RatSub(y[i], y_pred[i]))])

\* TrendAnalyzer._calculate_r_squared
CalculateRSquared(x, y, slope, intercept) ==
    RSquaredOf(SumSqDiff(y, [i \in 1..Len(x) |-> RatAdd(RatMul(slope, x[i]), intercept)]),
               SumSqDev(y, Mean(y)))

LinearTrendOfFit(x_norm, values, fit) ==
    [slope     |-> fit.slope,
     intercept |-> fit.intercept,
     r_squared |-> CalculateRSquared(x_norm, values, fit.slope, fit.intercept)]

LinearTrendOnAxis(x_norm, values) ==
    LinearTrendOfFit(x_norm, values, LeastSquares(x_norm, values))

\* TrendAnalyzer._linear_trend_analysis
LinearTrendAnalysis(timestamps, values) ==
    LinearTrendOnAxis(XNorm(timestamps), values)

\* mutant: the change is returned as a fraction, not in percent
PercentageChange_Fraction(values) ==
    IF Len(values) < 2 \/ RatEq(values[1], Zero)
    THEN Zero
    ELSE RatDiv(RatSub(values[Len(values)], values[1]), values[1])

\* TrendAnalyzer._percentage_change
PercentageChange(values) ==
    IF Len(values) < 2 \/ RatEq(values[1], Zero)
    THEN Zero
    ELSE RatMul(RatDiv(RatSub(values[Len(values)], values[1]), values[1]),
                RatOfInt(100))

\* mutant: no check of the mean; the division by 0.0 gives inf (nan for 0/0)
CoefficientOfVariation_InfAtZero(mean_val, variance) ==
    IF RatEq(mean_val, Zero)
    THEN [sign |-> IF RatEq(variance, Zero) THEN 0 ELSE 1, sq |-> RatOfInt(1000000)]
    ELSE [sign |-> IF RatEq(variance, Zero) THEN 0 ELSE Sgn(mean_val[1]),
          sq   |-> RatDiv(variance, RatMul(mean_val, mean_val))]

\* np.std(values) / mean_val as the signed root of variance / mean_val^2
CoefficientOfVariation(mean_val, variance) ==
    IF RatEq(mean_val, Zero)
    THEN [sign |-> 0, sq |-> Zero]
    ELSE [sign |-> IF RatEq(variance, Zero) THEN 0 ELSE Sgn(mean_val[1]),
          sq   |-> RatDiv(variance, RatMul(mean_val, mean_val))]

VolatilityOfMean(values, mean_val) ==
    CoefficientOfVariation(mean_val,
                           RatDiv(SumSqDev(values, mean_val), RatOfInt(Len(values))))

\* TrendAnalyzer._volatility_analysis: 0 when the mean is 0, else
\* np.std(values) / np.mean(values)
VolatilityAnalysis(values) == VolatilityOfMean(values, Mean(values))

\* TrendAnalyzer._seasonal_decomposition: series.asfreq("D") keeps the points
\* that lie a whole number of days after the first one, ffill() repeats the last
\* kept point over the days without one; None below 8 points or at zero
\* variance, and None on any exception (the strengths themselves, which no
\* caller reads, are not computed)
DailySeries(timestamps, values, days) ==
    [k \in 1..days |->
        values[CHOOSE j \in 1..Len(timestamps) :
                  \E c \in 1..k :
                     /\ timestamps[j] = timestamps[1] + (c - 1) * HOURS_PER_DAY
                     /\ \A e \in (c + 1)..k :
                           \A h \in 1..Len(timestamps) :
                              timestamps[h] # timestamps[1] + (e - 1) * HOURS_PER_DAY]]

SeasonalOfDaily(daily) ==
    IF RatEq(SumSqDev(daily, Mean(daily)), Zero) \/ Len(daily) < 8
    THEN "None"
    ELSE "Dict"

SeasonalDecomposition(timestamps, values) ==
    SeasonalOfDaily(DailySeries(timestamps, values,
        1 + ((timestamps[Len(timestamps)] - timestamps[1]) \div HOURS_PER_DAY)))

-----------------------------------------------------------------------------
(* The trend store: the biometric_trends table, a set of rows              *)

TrendRow(id, patient_id, biometric_type, trend, analyzed_at) ==
    [id |-> id, patient_id |-> patient_id, biometric_type |-> biometric_type,
     trend |-> trend, analyzed_at |-> analyzed_at]

\* filter_by(patient_id=..., biometric_type=...)
TrendRowsOf(tr, patient_id, biometric_type) ==
    {r \in tr : r.patient_id = patient_id /\ r.biometric_type = biometric_type}

\* UniqueConstraint('patient_id', 'biometric_type'), and the primary key
UniqueTrendKey(tr) ==
    \A r1, r2 \in tr :
        (r1.id = r2.id
         \/ (r1.patient_id = r2.patient_id /\ r1.biometric_type = r2.biometric_type))
        => r1 = r2

\* the value the id sequence hands to an inserted row
NextTrendId(tr) ==
    IF tr = {} THEN 1
    ELSE 1 + (CHOOSE m \in {r.id : r \in tr} : \A r \in tr : r.id <= m)

\* mutant: the lookup result is ignored and a row is always added
UpsertTrendRecord_AlwaysAdd(tr, found, patient_id, biometric_type, trend, now) ==
    tr \cup {TrendRow(NextTrendId(tr), patient_id, biometric_type, trend, now)}

\* mutant: an existing row keeps its trend, only analyzed_at moves
UpsertTrendRecord_KeepTrend(tr, found, patient_id, biometric_type, trend, now) ==
    IF found # {}
    THEN (tr \ found) \cup {[r EXCEPT !.analyzed_at = now] : r \in found}
    ELSE tr \cup {TrendRow(NextTrendId(tr), patient_id, biometric_type, trend, now)}

\* mutant: the label that is written is always the sentinel
UpsertTrendRecord_Sentinel(tr, found, patient_id, biometric_type, trend, now) ==
    IF found # {}
    THEN (tr \ found)
         \cup {[r EXCEPT !.trend = "insufficient_data", !.analyzed_at = now] : r \in found}
    ELSE tr \cup {TrendRow(NextTrendId(tr), patient_id, biometric_type,
                           "insufficient_data", now)}

\* mutant: the rows of the other keys are stamped with the time of the call
UpsertTrendRecord_StampAll(tr, found, patient_id, biometric_type, trend, now) ==
    IF found # {}
    THEN {[r EXCEPT !.analyzed_at = now] : r \in tr \ found}
         \cup {[r EXCEPT !.trend = trend, !.analyzed_at = now] : r \in found}
    ELSE {[r EXCEPT !.analyzed_at = now] : r \in tr}
         \cup {TrendRow(NextTrendId(tr), patient_id, biometric_type, trend, now)}

\* _store_trend, the if record / else of the session: the row found is updated
\* in place, a new row is added when none was found
UpsertTrendRecord(tr, found, patient_id, biometric_type, trend, now) ==
    IF found # {}
    THEN (tr \ found)
         \cup {[r EXCEPT !.trend = trend, !.analyzed_at = now] : r \in found}
    ELSE tr \cup {TrendRow(NextTrendId(tr), patient_id, biometric_type, trend, now)}

\* TrendAnalyzer._store_trend.  fault: the database rejects the query or the
\* commit.  Every exception (a fault, MultipleResultsFound of one_or_none, a
\* violated constraint at commit) is logged and rolled back inside; the
\* function returns None either way and raises nothing.
StoreTrend(tr, patient_id, biometric_type, trend, fault, now) ==
    LET found  == TrendRowsOf(tr, patient_id, biometric_type)
        staged == UpsertTrendRecord(tr, found, patient_id, biometric_type, trend, now)
        failed == fault \/ Cardinality(found) > 1 \/ ~UniqueTrendKey(staged)
    IN  [trends    |-> IF failed THEN tr ELSE staged,
         committed |-> ~failed,
         returned  |-> "None",
         raised    |-> FALSE,
         log       |-> IF failed THEN <<"store_failed">> ELSE <<>>]

-----------------------------------------------------------------------------
(* One unit of analysis: analyze_patient_trend(patient_id, biometric_type) *)

Measurement(timestamp, value, systolic, diastolic) ==
    [timestamp |-> timestamp, value |-> value,
     systolic |-> systolic, diastolic |-> diastolic]

\* mutant: a missing reading is taken for a number
HasNullReading_Never(biometric_type, measurements) == FALSE

\* a reading that cannot enter the arithmetic of the value extraction (None)
HasNullReading(biometric_type, measurements) ==
    \E i \in 1..Len(measurements) :
        IF biometric_type = "blood_pressure"
        THEN measurements[i].systolic = NULL \/ measurements[i].diastolic = NULL
        ELSE measurements[i].value = NULL

\* values = [(m.systolic + m.diastolic) / 2 ...] or [m.value ...]
ExtractValues(biometric_type, measurements) ==
    [i \in 1..Len(measurements) |->
        IF biometric_type = "blood_pressure"
        THEN Rat(measurements[i].systolic + measurements[i].diastolic, 2)
        ELSE RatOfInt(measurements[i].value)]

\* analysis_results of a call that did not get to the analyses
NoAnalysis == [seasonal_decomposition |-> "not run"]

UnitResult(tr, raised, calls, n, trend, st, log) ==
    [trends |-> tr, raised |-> raised, calls |-> calls, n |-> n, trend |-> trend,
     analysis |-> NoAnalysis,
     store_called |-> st.called, store_fault |-> st.fault,
     store_committed |-> st.committed, store_returned |-> st.returned,
     store_raised |-> st.raised, log |-> log]

NoStore ==
    [called |-> FALSE, fault |-> FALSE, committed |-> FALSE,
     returned |-> "None", raised |-> FALSE]

StoreOutcome(st, fault) ==
    [called |-> TRUE, fault |-> fault, committed |-> st.committed,
     returned |-> st.returned, raised |-> st.raised]

\* mutant: the sample-count check compares with <=
TooFewMeasurements_OffByOne(measurements) == Len(measurements) <= MIN_DATA_POINTS

\* mutant: the sample-count check only catches the empty window
TooFewMeasurements_OnlyEmpty(measurements) == Len(measurements) < MIN_DATA_POINTS - 1

\* if len(measurements) < MIN_DATA_POINTS
TooFewMeasurements(measurements) == Len(measurements) < MIN_DATA_POINTS

\* the result of a call that ends in _store_trend(...): st is what the store
\* did
UnitStored(st, fault, calls, n, trend, log_before, log_after) ==
    UnitResult(st.trends, st.raised, calls, n, trend, StoreOutcome(st, fault),
               log_before \o st.log \o log_after)

\* lines 83-94: the four analyses of the series
RunAnalyses(timestamps, values) ==
    [linear_trend           |-> LinearTrendAnalysis(timestamps, values),
     percentage_change      |-> PercentageChange(values),
     volatility             |-> VolatilityAnalysis(values),
     seasonal_decomposition |-> SeasonalDecomposition(timestamps, values)]

\* lines 96-103: the label is stored, then the analysis is logged
StoreClassified(tr, patient_id, biometric_type, n, trend, fault, now) ==
    UnitStored(StoreTrend(tr, patient_id, biometric_type, trend, fault, now), fault,
               <<"_get_measurements", "_linear_trend_analysis",
                 "_percentage_change", "_volatility_analysis",
                 "_seasonal_decomposition", "_classify_trend", "_store_trend">>,
               n, trend, <<>>, <<"analysis">>)

\* lines 83-97: analysis_results is built, classified, and the label stored
ClassifyAndStore(tr, patient_id, biometric_type, n, analysis_results, fault, now) ==
    [StoreClassified(tr, patient_id, biometric_type, n,
                     ClassifyTrend(biometric_type, analysis_results), fault, now)
        EXCEPT !.analysis = analysis_results]

\* TrendAnalyzer.analyze_patient_trend, from the table tr.  query: what
\* _get_measurements yields ([ok |-> FALSE] when the query raises); fault:
\* whether the database rejects the write of _store_trend; now: the clock.
\* The result holds the table afterwards, whether the call raised, and the
\* helper calls it made, in order.
AnalyzePatientTrend(tr, patient_id, biometric_type, query, fault, now) ==
    IF ~query.ok
    THEN UnitResult(tr, TRUE, <<"_get_measurements">>, -1, NoLabel, NoStore, <<>>)
    ELSE IF TooFewMeasurements(query.rows)
    THEN UnitStored(StoreTrend(tr, patient_id, biometric_type, "insufficient_data",
                               fault, now),
                    fault, <<"_get_measurements", "_store_trend">>, Len(query.rows),
                    "insufficient_data", <<"insufficient">>, <<>>)
    ELSE IF biometric_type = "blood_pressure"
            /\ HasNullReading(biometric_type, query.rows)
    THEN \* TypeError in (m.systolic + m.diastolic) / 2
         UnitResult(tr, TRUE, <<"_get_measurements">>, Len(query.rows), NoLabel,
                    NoStore, <<>>)
    ELSE IF HasNullReading(biometric_type, query.rows)
    THEN \* np.linalg.lstsq rejects the object array that holds a None
         UnitResult(tr, TRUE, <<"_get_measurements", "_linear_trend_analysis">>,
                    Len(query.rows), NoLabel, NoStore, <<>>)
    ELSE ClassifyAndStore(tr, patient_id, biometric_type, Len(query.rows),
             RunAnalyses([i \in 1..Len(query.rows) |-> query.rows[i].timestamp],
                         ExtractValues(biometric_type, query.rows)),
             fault, now)

-----------------------------------------------------------------------------
(* What the measurement query can return                                   *)

NumPatients == 2

MaxPoints == 2

PatientIds == 1..NumPatients

TrendKeys == PatientIds \X BiometricTypeSet

\* readings of a glucose or weight row (value) and of a blood pressure row
\* (systolic, diastolic)
ValueReadings == {<<NULL, NULL, NULL>>, <<10, NULL, NULL>>, <<11, NULL, NULL>>,
                  <<20, NULL, NULL>>}

PressureReadings == {<<NULL, NULL, 8>>, <<NULL, 12, 8>>, <<NULL, 13, 8>>,
                     <<NULL, 24, 16>>}

ReadingsOf(biometric_type) ==
    IF biometric_type = "blood_pressure" THEN PressureReadings ELSE ValueReadings

\* _get_measurements: the rows of one patient and type inside the window, in
\* ascending timestamp order (here: one row an hour from the cutoff on)
MeasurementLists(biometric_type) ==
    {[i \in DOMAIN f |-> Measurement(i - 1, f[i][1], f[i][2], f[i][3])] :
        f \in UNION {[1..n -> ReadingsOf(biometric_type)] : n \in 0..MaxPoints}}

-----------------------------------------------------------------------------
(* Rows of the two tables the analyzer reads or leaves alone (db/models.py) *)

\* a row of the biometrics table
Biometric(id, patient_id, biometric_type, timestamp, value, systolic, diastolic) ==
    [id |-> id, patient_id |-> patient_id, biometric_type |-> biometric_type,
     timestamp |-> timestamp, value |-> value, systolic |-> systolic,
     diastolic |-> diastolic]

\* a row of patient_biometric_hourly_summary
SummaryRow(id, rec) ==
    [id |-> id, patient_id |-> rec.patient_id, biometric_type |-> rec.biometric_type,
     hour_start |-> rec.hour_start, min_value |-> rec.min_value,
     max_value |-> rec.max_value, avg_value |-> rec.avg_value, count |-> rec.count]

-----------------------------------------------------------------------------
(* Idle values: what a specification gives the variables it does not use   *)

ClsIdle ==
    [type |-> "idle", slope |-> 0, r2 |-> 0, pct |-> 0, vol |-> 0, label |-> NoLabel]

NoStats == [pc |-> "off"]

NoUnit == [patient_id |-> 0]

NoRace == [pc |-> "off"]

UnitIdle == trends = {} /\ clock = 0 /\ lastUnit = NoUnit /\ race = NoRace

NoBatch == [pc |-> "off"]

NoPager == [pc |-> "off"]

NoEtl == [pc |-> "off"]

BatchIdle ==
    patients = {} /\ batch = NoBatch /\ audit = <<>> /\ pager = NoPager /\ etl = NoEtl

NoAgg == [outcome |-> "none"]

NoFirstAgg == [done |-> FALSE, table |-> {}]

NoHourly == [pc |-> "off"]

AggIdle ==
    /\ biometrics = {} /\ summary = {} /\ lastAgg = NoAgg /\ firstAgg = NoFirstAgg
    /\ hourly = NoHourly

-----------------------------------------------------------------------------
(* analyze_patient_trend on its own: one call, for any patient and type,   *)
(* from any table that earlier runs can have left                          *)

MaxPrior == 1

TypeIndex(biometric_type) ==
    CHOOSE i \in 1..Len(BIOMETRIC_TYPES) : BIOMETRIC_TYPES[i] = biometric_type

\* the patients of the single call and of the rows stored before it
UnitPatients == {1, 2}

UnitKeys == UnitPatients \X BiometricTypeSet

\* the labels of the rows stored before the call
PriorLabels == {"stable", "insufficient_data"}

\* the tables of at most MaxPrior rows, one row a key at most, written at time 0
PriorStores ==
    {{TrendRow((k[1] - 1) * Len(BIOMETRIC_TYPES) + TypeIndex(k[2]), k[1], k[2], lab[k], 0) :
        k \in DOMAIN lab} :
     lab \in UNION {[S -> PriorLabels] :
                    S \in {T \in SUBSET UnitKeys : Cardinality(T) <= MaxPrior}}}

\* the record of a call: the arguments, the table before, the result
UnitRecord(patient_id, biometric_type, before, now, res) ==
    [patient_id |-> patient_id, biometric_type |-> biometric_type,
     before |-> before, now |-> now,
     raised |-> res.raised, calls |-> res.calls, n |-> res.n, trend |-> res.trend,
     analysis |-> res.analysis,
     store_called |-> res.store_called,
     store_fault |-> res.store_fault /\ res.store_called,
     store_committed |-> res.store_committed, store_returned |-> res.store_returned,
     store_raised |-> res.store_raised, log |-> res.log]

QueryOutcomes(biometric_type) ==
    {[ok |-> FALSE, rows |-> <<>>]}
    \cup {[ok |-> TRUE, rows |-> ms] : ms \in MeasurementLists(biometric_type)}

\* the measurements in the database when the unit runs: a glucose reading
\* and a blood pressure reading
UnitBiometrics ==
    {Biometric(1, 1, "glucose", 0, 100, NULL, NULL),
     Biometric(2, 2, "blood_pressure", 0, NULL, 120, 80)}

\* the hourly aggregates in the database when the unit runs
UnitSummary ==
    {SummaryRow(1, [patient_id |-> 1, biometric_type |-> "glucose", hour_start |-> 0,
                    min_value |-> 100, max_value |-> 100,
                    avg_value |-> RatOfInt(100), count |-> 1])}

UnitInit ==
    /\ cls = ClsIdle
    /\ stats = NoStats
    /\ trends \in PriorStores
    /\ clock = 1
    /\ lastUnit = NoUnit
    /\ race = NoRace
    /\ BatchIdle
    /\ biometrics = UnitBiometrics
    /\ summary = UnitSummary
    /\ lastAgg = NoAgg
    /\ firstAgg = NoFirstAgg
    /\ hourly = NoHourly

UnitCall(patient_id, biometric_type) ==
    /\ lastUnit = NoUnit
    /\ clock > 0
    /\ \E query \in QueryOutcomes(biometric_type), fault \in BOOLEAN :
         \E res \in {AnalyzePatientTrend(trends, patient_id, biometric_type,
                                          query, fault, clock)} :
             /\ trends' = res.trends
             /\ lastUnit' = UnitRecord(patient_id, biometric_type, trends, clock, res)
    /\ clock' = clock + 1
    /\ UNCHANGED <<race, clsVars, batchVars, aggVars>>

UnitNext == \E patient_id \in UnitPatients, biometric_type \in BiometricTypeSet :
                UnitCall(patient_id, biometric_type)

SpecUnit == UnitInit /\ [][UnitNext]_vars

-----------------------------------------------------------------------------
(* The batch: trend_analyzer_op -> main -> analyze_all_patients            *)

\* the page size of _get_patients (batch_size=100 in the code), scaled down
BatchSize == 1

RECURSIVE SortedSeq(_)
SortedSeq(S) ==
    IF S = {} THEN <<>>
    ELSE LET m == CHOOSE x \in S : \A y \in S : x <= y
         IN  <<m>> \o SortedSeq(S \ {m})

\* .offset(offset).limit(batch_size) of the rows in the order the database
\* delivers them to this query
PatientsPageIn(all, offset, batch_size) ==
    SubSeq(all, offset + 1,
           IF offset + batch_size < Len(all) THEN offset + batch_size ELSE Len(all))

\* session.query(Patient).offset(offset).limit(batch_size).all() against a
\* database that delivers the rows in id order to every query of the run
PatientsPage(tbl, offset, batch_size) ==
    PatientsPageIn(SortedSeq(tbl), offset, batch_size)

\* the measurement queries of a batch run: an empty window, two readings
\* that rise, a window with a null reading, and a query that fails
BatchQueryOutcomes(biometric_type) ==
    LET null == CHOOSE r \in ReadingsOf(biometric_type) :
                    IF biometric_type = "blood_pressure" THEN r[2] = NULL ELSE r[1] = NULL
        low  == CHOOSE r \in ReadingsOf(biometric_type) : r[1] = 10 \/ r[2] = 12
        high == CHOOSE r \in ReadingsOf(biometric_type) : r[1] = 11 \/ r[2] = 13
        M(i, r) == Measurement(i - 1, r[1], r[2], r[3])
    IN  {[ok |-> FALSE, rows |-> <<>>],
         [ok |-> TRUE,  rows |-> <<>>],
         [ok |-> TRUE,  rows |-> <<M(1, low), M(2, high)>>],
         [ok |-> TRUE,  rows |-> <<M(1, null), M(2, low)>>]}

\* mutant: no try/except around the unit, its exception leaves the loop
ExceptionEscapes_NoCatch(raised) == raised

\* try: analyze_patient_trend(...) except Exception: logger.exception(...)
\* whether an exception of the unit leaves analyze_all_patients: never
ExceptionEscapes(raised) == FALSE

\* mutant: the try/except encloses the loop over the types, so an exception
\* ends the patient's remaining types
NextTypeIndex_SkipRest(ti, raised) ==
    IF raised THEN Len(BIOMETRIC_TYPES) + 1 ELSE ti + 1

\* for biometric_type in self.BIOMETRIC_TYPES: the next type, whatever the
\* unit did
NextTypeIndex(ti, raised) == ti + 1

NoAudit ==
    [invoked |-> [k \in TrendKeys |-> 0], yielded |-> <<>>,
     unitRaised |-> FALSE, storeFailed |-> FALSE, pageFault |-> FALSE]

BatchInit ==
    /\ cls = ClsIdle
    /\ stats = NoStats
    /\ trends = {}
    /\ clock = 1
    /\ lastUnit = NoUnit
    /\ race = NoRace
    /\ \E k \in 0..NumPatients : patients = 1..k
    /\ batch = [pc |-> "idle", offset |-> 0, page |-> <<>>, ti |-> 1,
                result |-> "none", value |-> "none", op |-> "none"]
    /\ audit = NoAudit
    /\ pager = NoPager
    /\ etl = NoEtl
    /\ AggIdle

\* trend_analyzer_op starts main(), which starts analyze_all_patients; the
\* generator of _get_patients is created with offset 0
TrendAnalyzerOp ==
    /\ batch.pc = "idle"
    /\ batch' = [batch EXCEPT !.pc = "fetch", !.offset = 0, !.result = "running",
                              !.op = "running"]
    /\ UNCHANGED <<clsVars, unitVars, patients, audit, pager, etl, aggVars>>

\* _get_patients asks for the next page.  pageFault: the query raises; the
\* generator is consumed outside the try, so the exception leaves
\* analyze_all_patients and main, and trend_analyzer_op logs and re-raises it.
\* An empty page ends the generator and the loop: the run returns None.
GetPatients ==
    /\ batch.pc = "fetch"
    /\ \E pageFault \in BOOLEAN :
         IF pageFault
         THEN /\ batch' = [batch EXCEPT !.pc = "done", !.result = "raised",
                                        !.op = "failed"]
              /\ audit' = [audit EXCEPT !.pageFault = TRUE]
         ELSE LET page == PatientsPage(patients, batch.offset, BatchSize)
              IN  /\ batch' = IF page = <<>>
                              THEN [batch EXCEPT !.pc = "done", !.result = "returned",
                                                 !.value = "None", !.op = "succeeded"]
                              ELSE [batch EXCEPT !.pc = "analyze", !.page = page,
                                                 !.ti = 1]
                  /\ audit' = IF page = <<>> THEN audit
                              ELSE [audit EXCEPT !.yielded = @ \o <<Head(page)>>]
    /\ UNCHANGED <<clsVars, unitVars, patients, pager, etl, aggVars>>

\* the loop after a unit: the next type, the next patient of the page, or
\* the next page (offset += batch_size)
AfterUnit(b, raised) ==
    LET ti == NextTypeIndex(b.ti, raised)
    IN  IF ExceptionEscapes(raised)
        THEN [b EXCEPT !.pc = "done", !.result = "raised", !.op = "failed"]
        ELSE IF ti <= Len(BIOMETRIC_TYPES)
        THEN [b EXCEPT !.ti = ti]
        ELSE IF Len(b.page) > 1
        THEN [b EXCEPT !.page = Tail(b.page), !.ti = 1]
        ELSE [b EXCEPT !.page = <<>>, !.ti = 1, !.pc = "fetch",
                       !.offset = b.offset + BatchSize]

\* one turn of the inner loop of analyze_all_patients: the unit for the
\* current patient and type, inside its try/except
AnalyzeUnit ==
    /\ batch.pc = "analyze"
    /\ LET patient_id     == Head(batch.page)
           biometric_type == BIOMETRIC_TYPES[batch.ti]
       IN  \E query \in BatchQueryOutcomes(biometric_type), fault \in BOOLEAN :
             \E res \in {AnalyzePatientTrend(trends, patient_id, biometric_type,
                                              query, fault, clock)} :
             \E next \in {AfterUnit(batch, res.raised)} :
                 /\ trends' = res.trends
                 /\ lastUnit' = UnitRecord(patient_id, biometric_type, trends, clock, res)
                 /\ batch' = next
                 /\ audit' = [audit EXCEPT
                       !.invoked[<<patient_id, biometric_type>>] = @ + 1,
                       !.unitRaised = @ \/ res.raised,
                       !.storeFailed = @ \/ (res.store_called /\ ~res.store_committed),
                       !.yielded = IF next.pc = "analyze" /\ next.page # batch.page
                                   THEN @ \o <<Head(next.page)>> ELSE @]
    /\ clock' = clock + 1
    /\ UNCHANGED <<race, clsVars, patients, pager, etl, aggVars>>

BatchNext == TrendAnalyzerOp \/ GetPatients \/ AnalyzeUnit

SpecBatch == BatchInit /\ [][BatchNext]_vars

-----------------------------------------------------------------------------
(* The classifier on its own: every input of a grid, classified once.      *)
(* slope and volatility are in hundredths, percentage_change and r_squared *)
(* in tenths, so that every cutoff of every type lies on the grid.         *)

GridMax == 11

GridSlope == -GridMax..GridMax

GridPct == -GridMax..GridMax

GridVol == -1..(2 * GridMax - 1)

GridR2 == {6, 7, 8}

ClassifyInit ==
    \E ty \in BiometricTypeSet, s \in GridSlope, r \in GridR2,
       p \in GridPct, v \in GridVol :
        /\ cls = [type |-> ty, slope |-> s, r2 |-> r, pct |-> p, vol |-> v,
                  label |-> NoLabel]
        /\ stats = NoStats
        /\ UnitIdle
        /\ BatchIdle
        /\ AggIdle

\* the analysis_results dict that analyze_patient_trend hands to the classifier
AnalysisResultsOf(c) ==
    [linear_trend      |-> [slope |-> Rat(c.slope, 100), intercept |-> Zero,
                            r_squared |-> Rat(c.r2, 10)],
     percentage_change |-> Rat(c.pct, 10),
     volatility        |-> RootOfRat(Rat(c.vol, 100)),
     seasonal_decomposition |-> "None"]

Classify ==
    /\ cls.label = NoLabel
    /\ cls.type # "idle"
    /\ cls' = [cls EXCEPT !.label = ClassifyTrend(cls.type, AnalysisResultsOf(cls))]
    /\ UNCHANGED <<stats, unitVars, batchVars, aggVars>>

ClassifyNext == Classify

SpecClassify == ClassifyInit /\ [][ClassifyNext]_vars

-----------------------------------------------------------------------------
(* Claims about the classifier                                             *)

\* the thresholds as the specification lists them, in hundredths
SpecThreshold100(ty) ==
    CASE ty = "glucose" -> 10 [] ty = "weight" -> 3 [] ty = "blood_pressure" -> 7

\* the five rules of the decision list on grid values (all scaled to 1/100)
RuleHolds(k, c) ==
    LET th == SpecThreshold100(c.type)
        sl == c.slope
        pc == 10 * c.pct
        r2 == 10 * c.r2
    IN  CASE k = 1 -> c.vol > 2 * th
          [] k = 2 -> Abs(sl) < th /\ Abs(pc) < 10 * th
          [] k = 3 -> (sl > 0 /\ pc > 0) \/ (r2 > 70 /\ sl > 0)
          [] k = 4 -> (sl < 0 /\ pc < 0) \/ (r2 > 70 /\ sl < 0)
          [] k = 5 -> TRUE

RuleLabel == <<"volatile", "stable", "increasing", "decreasing", "stable">>

FirstRule(c) == CHOOSE k \in 1..5 : RuleHolds(k, c) /\ \A j \in 1..(k - 1) : ~RuleHolds(j, c)

\* C1: for every type and every slope, r_squared, percentage_change and
\* volatility, _classify_trend returns the label of the first matching rule of
\* the decision list volatile / stable / increasing / decreasing / stable.
C1_FirstMatchingRule ==
    cls.label # NoLabel => cls.label = RuleLabel[FirstRule(cls)]

\* a case where only the r_squared clause decides: slope > 0, no positive change
C1_Witness ==
    /\ cls.label = "increasing"
    /\ cls.type = "weight"
    /\ cls.slope > 0 /\ cls.pct < 0 /\ cls.r2 = 8

\* C2: the volatility rule is strict: volatility equal to 2*threshold never
\* yields 'volatile', any volatility above it always does, whatever the rest.
C2_VolatilityStrict ==
    cls.label # NoLabel =>
        /\ (cls.vol = 2 * SpecThreshold100(cls.type) => cls.label # "volatile")
        /\ (cls.vol > 2 * SpecThreshold100(cls.type) => cls.label = "volatile")

C2_Witness ==
    /\ cls.label = "increasing"
    /\ cls.type = "blood_pressure"
    /\ cls.vol = 14

-----------------------------------------------------------------------------
(* Claims about one unit of analysis                                       *)

UnitDone == lastUnit # NoUnit

UnitRows == TrendRowsOf(trends, lastUnit.patient_id, lastUnit.biometric_type)

UnitRowsBefore ==
    TrendRowsOf(lastUnit.before, lastUnit.patient_id, lastUnit.biometric_type)

StatisticsCalls ==
    {"_linear_trend_analysis", "_percentage_change", "_volatility_analysis",
     "_seasonal_decomposition", "_classify_trend"}

\* C3: when analyze_patient_trend finds fewer than MIN_DATA_POINTS measurements
\* in the window it hands 'insufficient_data' to the store (which holds it for
\* that patient and type unless the database rejects the write), calls none of
\* the statistics nor the classifier, and returns without raising.
C3_InsufficientData ==
    (UnitDone /\ lastUnit.n >= 0 /\ lastUnit.n < 2) =>
        /\ ~lastUnit.raised
        /\ lastUnit.trend = "insufficient_data"
        /\ lastUnit.calls = <<"_get_measurements", "_store_trend">>
        /\ \A i \in 1..Len(lastUnit.calls) : lastUnit.calls[i] \notin StatisticsCalls
        /\ (~lastUnit.store_fault =>
               /\ UnitRows # {}
               /\ \A r \in UnitRows : r.trend = "insufficient_data")

\* one measurement, a null one even, and a row that held another label
C3_Witness ==
    /\ UnitDone /\ lastUnit.n = 1
    /\ \E r \in UnitRowsBefore : r.trend = "stable"
    /\ \E r \in UnitRows : r.trend = "insufficient_data"

FourLabels == {"increasing", "decreasing", "stable", "volatile"}

\* C4: every stored label is one of the five labels, and 'insufficient_data'
\* is stored only by the sample-count check: a completed analysis of at least
\* MIN_DATA_POINTS measurements stores the classifier's label, one of the four.
C4_StoredLabels ==
    /\ \A r \in trends : r.trend \in TrendLabels
    /\ (UnitDone /\ lastUnit.store_committed) =>
          /\ \A r \in UnitRows : r.trend = lastUnit.trend
          /\ (lastUnit.n >= 2 <=> lastUnit.trend \in FourLabels)
          /\ (lastUnit.n < 2 <=> lastUnit.trend = "insufficient_data")

C4_Witness ==
    /\ UnitDone /\ lastUnit.n = 2 /\ lastUnit.store_committed
    /\ \E r \in UnitRowsBefore : r.trend = "insufficient_data"
    /\ \E r \in UnitRows : r.trend = "decreasing"

\* C5: the store holds at most one row per (patient_id, biometric_type); a
\* run for a key that has a row updates trend and analyzed_at of that very row
\* and adds none, and a run for a key without one adds exactly one row.
C5_OneRowPerKey ==
    /\ \A k \in UnitKeys : Cardinality(TrendRowsOf(trends, k[1], k[2])) <= 1
    /\ (UnitDone /\ lastUnit.store_called /\ ~lastUnit.store_fault) =>
          IF UnitRowsBefore # {}
          THEN trends = (lastUnit.before \ UnitRowsBefore)
                        \cup {[r EXCEPT !.trend = lastUnit.trend,
                                        !.analyzed_at = lastUnit.now] :
                              r \in UnitRowsBefore}
          ELSE /\ Cardinality(trends) = Cardinality(lastUnit.before) + 1
               /\ lastUnit.before \subseteq trends
               /\ \A r \in UnitRows :
                     r.trend = lastUnit.trend /\ r.analyzed_at = lastUnit.now
    /\ (UnitDone /\ ~lastUnit.store_called) => trends = lastUnit.before
    /\ (UnitDone /\ lastUnit.store_fault) => trends = lastUnit.before

C5_Witness ==
    /\ UnitDone /\ lastUnit.store_committed
    /\ \E r \in UnitRowsBefore :
          /\ r.trend = "stable" /\ r.analyzed_at = 0
          /\ [r EXCEPT !.trend = "increasing", !.analyzed_at = 1] \in trends
    /\ Cardinality(trends) = Cardinality(lastUnit.before)

-----------------------------------------------------------------------------
(* Claims about the batch                                                  *)

BatchRunning == batch.pc # "off"

BatchDone == BatchRunning /\ batch.pc = "done"

SeqToSet(q) == {q[i] : i \in 1..Len(q)}

\* the patient whose types are being analysed, if any
CurrentPatient == IF batch.pc = "analyze" THEN {Head(batch.page)} ELSE {}

C7_BatchCompletes ==
    BatchRunning =>
        /\ (batch.pc # "done" => ENABLED BatchNext)
        /\ (batch.result = "raised" => audit.pageFault)
        /\ (batch.op = "failed" <=> batch.result = "raised")
        /\ (BatchDone /\ ~audit.pageFault) =>
              /\ batch.result = "returned"
              /\ batch.value = "None"
              /\ batch.op = "succeeded"

C7_Witness ==
    /\ BatchDone /\ batch.result = "returned" /\ batch.op = "succeeded"
    /\ audit.unitRaised /\ audit.storeFailed
    /\ Cardinality(patients) = NumPatients

\* the write of the last unit was rejected by the store
StoreRejected == UnitDone /\ lastUnit.store_called /\ ~lastUnit.store_committed

\* C8: when the store rejects the write of a unit, the failure is logged, the
\* caller of _store_trend (analyze_patient_trend) observes it (an exception or
\* a return value that tells), and the other units are still analysed.
C8_StoreFailureSurfaced ==
    BatchRunning =>
        /\ StoreRejected =>
              /\ \E i \in 1..Len(lastUnit.log) : lastUnit.log[i] = "store_failed"
              /\ (lastUnit.store_raised \/ lastUnit.store_returned # "None")
        /\ (BatchDone /\ batch.result = "returned") =>
              \A p \in patients : \A t \in BiometricTypeSet :
                  audit.invoked[<<p, t>>] = 1

-----------------------------------------------------------------------------
(* Hourly aggregation (app/analytics/analytics.py).  Timestamps of the     *)
(* biometrics table are counted in minutes here; a value is an integer     *)
(* reading, an average an exact rational <<n, d>>.                         *)

MINUTES_PER_HOUR == 60

CENTS == 100

\* mutant: the timestamp goes to the nearest hour
DateTruncHour_Nearest(timestamp) ==
    ((2 * timestamp + MINUTES_PER_HOUR) \div (2 * MINUTES_PER_HOUR)) * MINUTES_PER_HOUR

\* date_trunc('hour', timestamp)
DateTruncHour(timestamp) == timestamp - (timestamp % MINUTES_PER_HOUR)

\* the rows of a table in the order of their primary key
RECURSIVE RowsInOrder(_)
RowsInOrder(rows) ==
    IF rows = {} THEN <<>>
    ELSE LET first == CHOOSE r \in rows : \A q \in rows : r.id <= q.id
         IN  <<first>> \o RowsInOrder(rows \ {first})

\* a row of the data frame: patient_id, biometric_type, hour_start, value
FrameRow(patient_id, biometric_type, hour_start, value) ==
    [patient_id |-> patient_id, biometric_type |-> biometric_type,
     hour_start |-> hour_start, value |-> value]

\* mutant: the query without "AND value IS NOT NULL"
IsBasicRow_KeepNull(r) == r.biometric_type \in {"glucose", "weight"}

IsBasicRow(r) == r.biometric_type \in {"glucose", "weight"} /\ r.value # NULL

IsSystolicRow(r) == r.biometric_type = "blood_pressure" /\ r.systolic # NULL

\* mutant: the diastolic branch also asks for a systolic value
IsDiastolicRow_NeedsSystolic(r) ==
    r.biometric_type = "blood_pressure" /\ r.diastolic # NULL /\ r.systolic # NULL

IsDiastolicRow(r) == r.biometric_type = "blood_pressure" /\ r.diastolic # NULL

BasicFrame(kept) ==
    [i \in DOMAIN kept |->
        FrameRow(kept[i].patient_id, kept[i].biometric_type,
                 DateTruncHour(kept[i].timestamp), kept[i].value)]

SystolicFrame(kept) ==
    [i \in DOMAIN kept |->
        FrameRow(kept[i].patient_id, "blood_pressure_systolic",
                 DateTruncHour(kept[i].timestamp), kept[i].systolic)]

DiastolicFrame(kept) ==
    [i \in DOMAIN kept |->
        FrameRow(kept[i].patient_id, "blood_pressure_diastolic",
                 DateTruncHour(kept[i].timestamp), kept[i].diastolic)]

\* get_basic_biometrics_query, run on the table
BasicBiometricsQuery(table) ==
    BasicFrame(SelectSeq(RowsInOrder(table), IsBasicRow))

\* get_blood_pressure_query, run on the table: the systolic rows UNION ALL
\* the diastolic rows
BloodPressureQuery(table) ==
    SystolicFrame(SelectSeq(RowsInOrder(table), IsSystolicRow))
        \o DiastolicFrame(SelectSeq(RowsInOrder(table), IsDiastolicRow))

\* load_biometrics_data: pd.concat([df_basic, df_bp], ignore_index=True)
LoadBiometricsData(table) == BasicBiometricsQuery(table) \o BloodPressureQuery(table)

\* the group key of a frame row or of a summary row
GroupKey(r) == <<r.patient_id, r.biometric_type, r.hour_start>>

\* mutant: the hour is left out of the group key
RECURSIVE GroupValues_IgnoreHour(_, _)
GroupValues_IgnoreHour(df, key) ==
    IF df = <<>> THEN <<>>
    ELSE IF Head(df).patient_id = key[1] /\ Head(df).biometric_type = key[2]
         THEN <<Head(df).value>> \o GroupValues_IgnoreHour(Tail(df), key)
         ELSE GroupValues_IgnoreHour(Tail(df), key)

\* the values of the frame rows of one group, in frame order
RECURSIVE GroupValues(_, _)
GroupValues(df, key) ==
    IF df = <<>> THEN <<>>
    ELSE IF GroupKey(Head(df)) = key
         THEN <<Head(df).value>> \o GroupValues(Tail(df), key)
         ELSE GroupValues(Tail(df), key)

SeqMin(s) == CHOOSE v \in {s[i] : i \in DOMAIN s} : \A i \in DOMAIN s : v <= s[i]

SeqMax(s) == CHOOSE v \in {s[i] : i \in DOMAIN s} : \A i \in DOMAIN s : v >= s[i]

\* the integer nearest to n / d (d > 0), a tie going to the even one
RoundHalfEven(n, d) ==
    LET q == n \div d
        r == n - q * d
    IN  IF 2 * r < d THEN q
        ELSE IF 2 * r > d THEN q + 1
        ELSE IF q % 2 = 0 THEN q ELSE q + 1

RoundTo2_Truncate(a) == Rat((CENTS * a[1]) \div a[2], CENTS)

\* Series.round(2)
RoundTo2(a) == Rat(RoundHalfEven(CENTS * a[1], a[2]), CENTS)

IntsToRats(s) == [i \in DOMAIN s |-> RatOfInt(s[i])]

IsPresent(v) == v # NULL

\* min, max, mean and count skip missing values; with none left the first
\* three are missing (NaN) and the count is 0
AggregateRowOf(key, present) ==
    [patient_id |-> key[1], biometric_type |-> key[2], hour_start |-> key[3],
     min_value |-> IF present = <<>> THEN NULL ELSE SeqMin(present),
     max_value |-> IF present = <<>> THEN NULL ELSE SeqMax(present),
     avg_value |-> IF present = <<>> THEN RatOfInt(NULL)
                   ELSE RoundTo2(Mean(IntsToRats(present))),
     count |-> Len(present)]

\* one row of the aggregated frame
AggregateRow(key, values) == AggregateRowOf(key, SelectSeq(values, IsPresent))

\* aggregate_hourly: groupby(patient_id, biometric_type, hour_start) with
\* min, max, mean and count of value, the mean rounded to two decimals
AggregateHourly(df) ==
    {AggregateRow(key, GroupValues(df, key)) :
        key \in {GroupKey(df[i]) : i \in DOMAIN df}}

SummaryRowsOf(table, key) == {r \in table : GroupKey(r) = key}

\* uix_patient_type_hour
UniqueSummaryKey(table) ==
    \A r, q \in table : GroupKey(r) = GroupKey(q) => r = q

NextSummaryId(table) ==
    IF table = {} THEN 1
    ELSE 1 + (CHOOSE m \in {r.id : r \in table} : \A r \in table : r.id <= m)

UpdateSummaryRow_Accumulate(old, rec) ==
    [old EXCEPT !.min_value = IF rec.min_value < @ THEN rec.min_value ELSE @,
                !.max_value = IF rec.max_value > @ THEN rec.max_value ELSE @,
                !.avg_value = rec.avg_value,
                !.count = @ + rec.count]

UpdateSummaryRow_KeepOld(old, rec) == old

\* ON CONFLICT ... DO UPDATE SET min_value, max_value, avg_value, count from
\* the excluded (proposed) row
UpdateSummaryRow(old, rec) ==
    [old EXCEPT !.min_value = rec.min_value, !.max_value = rec.max_value,
                !.avg_value = rec.avg_value, !.count = rec.count]

\* INSERT of one record with ON CONFLICT (patient_id, biometric_type,
\* hour_start) DO UPDATE
UpsertSummaryRecord(table, rec) ==
    IF SummaryRowsOf(table, GroupKey(rec)) = {}
    THEN table \cup {SummaryRow(NextSummaryId(table), rec)}
    ELSE {IF GroupKey(r) = GroupKey(rec) THEN UpdateSummaryRow(r, rec) ELSE r :
             r \in table}

\* the multi-row INSERT: the records of the aggregated frame in frame order
\* (the frame is sorted by its group key)
RECURSIVE UpsertSummaryRecords(_, _)
UpsertSummaryRecords(table, records) ==
    IF records = <<>> THEN table
    ELSE UpsertSummaryRecords(UpsertSummaryRecord(table, Head(records)), Tail(records))

SeriesTypes == <<"blood_pressure_diastolic", "blood_pressure_systolic",
                 "glucose", "weight">>

SeriesIndex(biometric_type) ==
    CHOOSE i \in DOMAIN SeriesTypes : SeriesTypes[i] = biometric_type

KeyBefore(k, l) ==
    \/ k[1] < l[1]
    \/ k[1] = l[1] /\ SeriesIndex(k[2]) < SeriesIndex(l[2])
    \/ k[1] = l[1] /\ k[2] = l[2] /\ k[3] < l[3]

\* agg_df.to_dict(orient='records'): the rows of the aggregated frame, which
\* groupby leaves sorted by group key
RECURSIVE ToRecords(_)
ToRecords(agg_df) ==
    IF agg_df = {} THEN <<>>
    ELSE LET first == CHOOSE r \in agg_df :
                        \A q \in agg_df \ {r} : KeyBefore(GroupKey(r), GroupKey(q))
         IN  <<first>> \o ToRecords(agg_df \ {first})

\* what a call of upsert_aggregates did: session.commit() and return on
\* success, session.rollback() and raise RuntimeError on SQLAlchemyError
UpsertResult(table, raised, returned) ==
    [summary |-> table, raised |-> raised, returned |-> returned,
     commits |-> IF raised THEN 0 ELSE 1,
     rollbacks |-> IF raised THEN 1 ELSE 0,
     error |-> IF raised THEN "RuntimeError" ELSE "none"]

\* mutant: the rows are inserted one statement at a time, so the rows
\* before the failing one stay
UpsertAggregates_PartialOnFault(table, agg_df, fault) ==
    IF fault
    THEN UpsertResult(UpsertSummaryRecord(table, Head(ToRecords(agg_df))), TRUE, 0)
    ELSE UpsertResult(UpsertSummaryRecords(table, ToRecords(agg_df)), FALSE,
                      Cardinality(agg_df))

\* upsert_aggregates: execute and commit, or roll back and raise RuntimeError
UpsertAggregates(table, agg_df, fault) ==
    IF fault THEN UpsertResult(table, TRUE, 0)
    ELSE UpsertResult(UpsertSummaryRecords(table, ToRecords(agg_df)), FALSE,
                      Cardinality(agg_df))

\* upsert_aggregates was not called
NoUpsert ==
    [raised |-> FALSE, returned |-> 0, commits |-> 0, rollbacks |-> 0,
     error |-> "none"]

\* the read of load_biometrics_data failed
LoadError == [NoUpsert EXCEPT !.error = "SQLAlchemyError"]

\* what a run of analytics_aggregate_biometrics did: the table it leaves, the
\* frame it loaded, the frame it aggregated, the functions it called
AggResult(table, outcome, frame, output, calls, up) ==
    [summary |-> table, outcome |-> outcome, frame |-> frame, output |-> output,
     calls |-> calls, returned |-> up.returned, commits |-> up.commits,
     rollbacks |-> up.rollbacks, error |-> up.error]

AggAfterUpsert(df, agg_df, up) ==
    AggResult(up.summary, IF up.raised THEN "upsert_failed" ELSE "committed",
              df, agg_df,
              <<"load_biometrics_data", "aggregate_hourly", "upsert_aggregates">>,
              up)

FrameEmpty_Never(df) == FALSE

\* df.empty
FrameEmpty(df) == df = <<>>

AggOfFrame(table, df, upsertFault) ==
    IF FrameEmpty(df)
    THEN AggResult(table, "noop", df, {}, <<"load_biometrics_data">>, NoUpsert)
    ELSE AggAfterUpsert(df, AggregateHourly(df),
                        UpsertAggregates(table, AggregateHourly(df), upsertFault))

\* analytics_aggregate_biometrics: load, return if the frame is empty,
\* aggregate, upsert
AnalyticsAggregateBiometrics(raw, table, loadFault, upsertFault) ==
    IF loadFault
    THEN AggResult(table, "load_failed", <<>>, {}, <<"load_biometrics_data">>,
                   LoadError)
    ELSE AggOfFrame(table, LoadBiometricsData(raw), upsertFault)

-----------------------------------------------------------------------------
(* SpecAgg: runs of the aggregation job over a biometrics table and a       *)
(* summary table that may hold rows of earlier runs                         *)

MaxRaw == 2

\* the series that have readings: patient and type
RawSeries == {<<1, "glucose">>, <<1, "weight">>, <<1, "blood_pressure">>,
              <<2, "glucose">>}

\* 00:15, 00:45 and 01:15
RawTimestamps == {15, 45, 75}

RawValueReadings == {<<NULL, NULL, NULL>>, <<10, NULL, NULL>>, <<11, NULL, NULL>>}

RawPressureReadings == {<<NULL, 12, 8>>, <<NULL, NULL, 8>>, <<NULL, 13, NULL>>,
                        <<NULL, NULL, NULL>>}

RawReadingsOf(biometric_type) ==
    IF biometric_type = "blood_pressure" THEN RawPressureReadings
    ELSE RawValueReadings

\* candidate rows <<patient_id, biometric_type, timestamp, reading>>
\* patient 2 has readings at 00:15 only
RawTimestampsOf(patient_id) == IF patient_id = 1 THEN RawTimestamps ELSE {15}

RawCandidates ==
    {<<sr[1], sr[2], ts, rd>> :
        sr \in RawSeries, ts \in RawTimestamps,
        rd \in RawValueReadings \cup RawPressureReadings}

RawUniverse ==
    {c \in RawCandidates :
        c[3] \in RawTimestampsOf(c[1]) /\ c[4] \in RawReadingsOf(c[2])}

RawBefore(c, d) ==
    \/ c[1] < d[1]
    \/ c[1] = d[1] /\ TypeIndex(c[2]) < TypeIndex(d[2])
    \/ c[1] = d[1] /\ c[2] = d[2] /\ c[3] < d[3]

\* the unique constraint of the biometrics table
UniqueRawKey(cs) ==
    \A c, d \in cs : (c[1] = d[1] /\ c[2] = d[2] /\ c[3] = d[3]) => c = d

RawTableOf(cs) ==
    {Biometric(1 + Cardinality({d \in cs : RawBefore(d, c)}),
               c[1], c[2], c[3], c[4][1], c[4][2], c[4][3]) : c \in cs}

\* the sets of at most n candidate rows, built in key order
RECURSIVE RawSubsets(_)
RawSubsets(n) ==
    IF n = 0 THEN {{}}
    ELSE {{}} \cup UNION {{cs \cup {c} :
                              c \in {d \in RawUniverse : \A e \in cs : RawBefore(e, d)}} :
                          cs \in RawSubsets(n - 1)}

RawTables ==
    {RawTableOf(cs) : cs \in {ds \in RawSubsets(MaxRaw) : UniqueRawKey(ds)}}

\* rows an earlier run stored from readings that have been changed or
\* deleted since
StaleRecord(key) ==
    [patient_id |-> key[1], biometric_type |-> key[2], hour_start |-> key[3],
     min_value |-> 15, max_value |-> 15, avg_value |-> RatOfInt(15), count |-> 1]

StaleKeys == <<<<1, "glucose", 0>>, <<2, "weight", 60>>>>

PriorSummaries ==
    {{SummaryRow(i, StaleRecord(StaleKeys[i])) : i \in 1..n} :
        n \in 0..Len(StaleKeys)}

AggInit ==
    /\ cls = ClsIdle
    /\ stats = NoStats
    /\ UnitIdle
    /\ BatchIdle
    /\ biometrics \in RawTables
    /\ summary \in PriorSummaries
    /\ lastAgg = NoAgg
    /\ firstAgg = NoFirstAgg
    /\ hourly = NoHourly

AggRecord(before, res) ==
    [outcome |-> res.outcome, before |-> before, frame |-> res.frame,
     output |-> res.output, calls |-> res.calls, returned |-> res.returned,
     commits |-> res.commits, rollbacks |-> res.rollbacks, error |-> res.error,
     op |-> IF res.outcome \in {"load_failed", "upsert_failed"}
            THEN "failed" ELSE "succeeded"]

FirstAggAfter(first, res) ==
    IF ~first.done /\ res.outcome \in {"noop", "committed"}
    THEN [done |-> TRUE, table |-> res.summary]
    ELSE first

\* aggregate_biometrics_op: one run of analytics_aggregate_biometrics
AggregateBiometricsOp ==
    \E loadFault, upsertFault \in BOOLEAN :
        \E res \in {AnalyticsAggregateBiometrics(biometrics, summary,
                                                 loadFault, upsertFault)} :
            /\ summary' = res.summary
            /\ lastAgg' = AggRecord(summary, res)
            /\ firstAgg' = FirstAggAfter(firstAgg, res)
            /\ UNCHANGED <<clsVars, unitVars, batchVars, biometrics, hourly>>

AggNext == AggregateBiometricsOp

SpecAgg == AggInit /\ [][AggNext]_vars

\* the keys of the rows the last run computed
OutputKeys == {GroupKey(o) : o \in lastAgg.output}

SameAggregates(r, o) ==
    /\ r.min_value = o.min_value
    /\ r.max_value = o.max_value
    /\ r.avg_value = o.avg_value
    /\ r.count = o.count

\* C9: once a run of the aggregation job has completed, every later run over
\* the same biometrics rows leaves the summary table exactly as that run left
\* it: running twice gives the rows of running once.
C9_AggregationIdempotent ==
    firstAgg.done => summary = firstAgg.table

\* a second run has committed on the table the first run left, and the first
\* run had replaced or added rows
C9_Witness ==
    /\ firstAgg.done
    /\ lastAgg.outcome = "committed"
    /\ lastAgg.before = firstAgg.table
    /\ lastAgg.output # {}
    /\ \E r \in firstAgg.table : r.count = 2
    /\ \E r \in firstAgg.table : GroupKey(r) \notin OutputKeys

\* C10: after a successful upsert the stored minimum, maximum, average and
\* count of every key in the run's output are the values of this run (not
\* combined with what was stored), the key has exactly one stored row, and
\* rows of keys outside the output are as they were.
C10_UpsertOverwrites ==
    lastAgg.outcome = "committed" =>
        /\ \A o \in lastAgg.output :
              \E r \in summary :
                  /\ GroupKey(r) = GroupKey(o)
                  /\ SameAggregates(r, o)
                  /\ \A q \in summary : GroupKey(q) = GroupKey(o) => q = r
        /\ \A r \in lastAgg.before : GroupKey(r) \notin OutputKeys => r \in summary
        /\ \A r \in summary : GroupKey(r) \notin OutputKeys => r \in lastAgg.before

\* a stored row of an earlier run was overwritten with different values, a
\* new row was added and a row of another key was left alone
C10_Witness ==
    /\ lastAgg.outcome = "committed"
    /\ \E o \in lastAgg.output : \E b \in lastAgg.before :
          GroupKey(b) = GroupKey(o) /\ ~SameAggregates(b, o)
    /\ \E o \in lastAgg.output : \A b \in lastAgg.before : GroupKey(b) # GroupKey(o)
    /\ \E b \in lastAgg.before : GroupKey(b) \notin OutputKeys /\ b \in summary

-----------------------------------------------------------------------------
(* SpecHourly: aggregate_hourly on its own, applied to any frame that       *)
(* load_biometrics_data can return (no missing values, not empty)           *)

MaxFrame == 3

FrameKeys == {<<1, "glucose", 0>>, <<1, "glucose", 60>>, <<1, "weight", 0>>,
              <<2, "glucose", 0>>}

FrameValues == {100, 120, 121}

FrameUniverse ==
    {FrameRow(k[1], k[2], k[3], v) : k \in FrameKeys, v \in FrameValues}

Frames == UNION {[1..n -> FrameUniverse] : n \in 1..MaxFrame}

HourlyInit ==
    /\ cls = ClsIdle
    /\ stats = NoStats
    /\ UnitIdle
    /\ BatchIdle
    /\ biometrics = {} /\ summary = {} /\ lastAgg = NoAgg /\ firstAgg = NoFirstAgg
    /\ \E df \in Frames : hourly = [pc |-> "called", df |-> df, out |-> {}]

\* agg_df = aggregate_hourly(df)
AggregateHourlyCall ==
    /\ hourly.pc = "called"
    /\ hourly' = [hourly EXCEPT !.pc = "returned", !.out = AggregateHourly(hourly.df)]
    /\ UNCHANGED <<clsVars, unitVars, batchVars, biometrics, summary, lastAgg, firstAgg>>

HourlyNext == AggregateHourlyCall

SpecHourly == HourlyInit /\ [][HourlyNext]_vars

\* the frame rows that contribute to an output row
Contributors(df, o) == {i \in DOMAIN df : GroupKey(df[i]) = GroupKey(o)}

RECURSIVE SumOfCounts(_)
SumOfCounts(rows) ==
    IF rows = {} THEN 0
    ELSE LET r == CHOOSE x \in rows : TRUE
         IN  r.count + SumOfCounts(rows \ {r})

\* C11: the groups of aggregate_hourly are exhaustive and disjoint: every
\* input row has exactly one output row with its (patient_id, biometric_type,
\* hour_start), the count of an output row is the number of input rows with
\* its key, and the counts add up to the number of input rows.
C11_GroupsPartitionInput ==
    hourly.pc = "returned" =>
        /\ \A i \in DOMAIN hourly.df :
              Cardinality({o \in hourly.out : GroupKey(o) = GroupKey(hourly.df[i])}) = 1
        /\ \A o \in hourly.out : o.count = Cardinality(Contributors(hourly.df, o))
        /\ SumOfCounts(hourly.out) = Len(hourly.df)

\* three rows in two groups of one patient and type, an hour apart
C11_Witness ==
    /\ hourly.pc = "returned"
    /\ Len(hourly.df) = 3
    /\ Cardinality(hourly.out) = 2
    /\ \E o, q \in hourly.out :
          /\ o.count = 2 /\ q.count = 1
          /\ o.patient_id = q.patient_id /\ o.biometric_type = q.biometric_type
          /\ o.hour_start # q.hour_start

RECURSIVE SumAt(_, _)
SumAt(df, idx) ==
    IF idx = {} THEN 0
    ELSE LET i == CHOOSE x \in idx : TRUE
         IN  df[i].value + SumAt(df, idx \ {i})

\* avg is a whole number of hundredths, none of them nearer to sum / n
IsRoundedMean(avg, sum, n) ==
    /\ CENTS % avg[2] = 0
    /\ ~RatGt(RatAbs(RatSub(avg, Rat(sum, n))), Rat(1, 2 * CENTS))

\* the two glucose readings 100 and 120 of patient 1 in one hour
ExampleFrame == <<FrameRow(1, "glucose", 0, 100), FrameRow(1, "glucose", 0, 120)>>

ExampleRow ==
    [patient_id |-> 1, biometric_type |-> "glucose", hour_start |-> 0,
     min_value |-> 100, max_value |-> 120, avg_value |-> RatOfInt(110), count |-> 2]

ExampleWeightRow ==
    [patient_id |-> 1, biometric_type |-> "weight", hour_start |-> 0,
     min_value |-> 121, max_value |-> 121, avg_value |-> RatOfInt(121), count |-> 1]

\* C12: aggregate_hourly returns exactly one row for each distinct
\* (patient_id, biometric_type, hour_start) of its input and none else; its
\* min_value is the least and its max_value the greatest value of the group,
\* its avg_value the mean of the group rounded to two decimals.  Readings 100
\* and 120 of one patient, type and hour give min 100, max 120, avg 110.00,
\* count 2, and a weight reading of that hour gives a row of its own.
C12_OneRowPerGroup ==
    hourly.pc = "returned" =>
        /\ {GroupKey(o) : o \in hourly.out}
              = {GroupKey(hourly.df[i]) : i \in DOMAIN hourly.df}
        /\ \A o, q \in hourly.out : GroupKey(o) = GroupKey(q) => o = q
        /\ \A o \in hourly.out :
              /\ \E i \in Contributors(hourly.df, o) : hourly.df[i].value = o.min_value
              /\ \E i \in Contributors(hourly.df, o) : hourly.df[i].value = o.max_value
              /\ \A i \in Contributors(hourly.df, o) :
                    o.min_value <= hourly.df[i].value /\ hourly.df[i].value <= o.max_value
              /\ IsRoundedMean(o.avg_value, SumAt(hourly.df, Contributors(hourly.df, o)),
                               Cardinality(Contributors(hourly.df, o)))
        /\ (hourly.df = ExampleFrame => hourly.out = {ExampleRow})
        /\ (hourly.df = ExampleFrame \o <<FrameRow(1, "weight", 0, 121)>>
               => hourly.out = {ExampleRow, ExampleWeightRow})

\* a group of 100, 120 and 121, whose mean 113.666... is stored as 113.67
C12_Witness ==
    /\ hourly.pc = "returned"
    /\ \E o \in hourly.out :
          /\ o.count = 3 /\ o.min_value = 100 /\ o.max_value = 121
          /\ o.avg_value = Rat(11367, CENTS)

-----------------------------------------------------------------------------
(* Claims about the aggregation job (SpecAgg)                               *)

\* the last run got as far as aggregate_hourly
AggAggregated == lastAgg.outcome \in {"committed", "upsert_failed"}

\* the stored reading r is one of the readings of the aggregate row o
RawContributes(r, o) ==
    /\ r.patient_id = o.patient_id
    /\ o.hour_start <= r.timestamp
    /\ r.timestamp < o.hour_start + MINUTES_PER_HOUR
    /\ \/ /\ o.biometric_type \in {"glucose", "weight"}
          /\ r.biometric_type = o.biometric_type
          /\ r.value # NULL
       \/ /\ o.biometric_type = "blood_pressure_systolic"
          /\ r.biometric_type = "blood_pressure"
          /\ r.systolic # NULL
       \/ /\ o.biometric_type = "blood_pressure_diastolic"
          /\ r.biometric_type = "blood_pressure"
          /\ r.diastolic # NULL

\* C13: every row aggregate_hourly produces in a run of the job and every row
\* of the summary table has count >= 1, and every produced row has a reading
\* that contributes to it: a group without readings gives no row.
C13_CountAtLeastOne ==
    /\ \A r \in summary : r.count >= 1
    /\ AggAggregated =>
          \A o \in lastAgg.output :
              /\ o.count >= 1
              /\ \E r \in biometrics : RawContributes(r, o)

\* a committed run over a table with a glucose row whose value is missing:
\* its hour has no other reading and gets no row
C13_Witness ==
    /\ lastAgg.outcome = "committed"
    /\ lastAgg.output # {}
    /\ \E r \in biometrics :
          /\ r.biometric_type = "glucose" /\ r.value = NULL
          /\ \A o \in summary :
                ~(o.patient_id = r.patient_id /\ o.biometric_type = "glucose"
                  /\ o.hour_start <= r.timestamp
                  /\ r.timestamp < o.hour_start + MINUTES_PER_HOUR)

\* the series a stored reading has a value for
SeriesOf(r) ==
    (IF r.biometric_type \in {"glucose", "weight"} /\ r.value # NULL
     THEN {r.biometric_type} ELSE {})
    \cup (IF r.biometric_type = "blood_pressure" /\ r.systolic # NULL
          THEN {"blood_pressure_systolic"} ELSE {})
    \cup (IF r.biometric_type = "blood_pressure" /\ r.diastolic # NULL
          THEN {"blood_pressure_diastolic"} ELSE {})

\* the clock hour of a timestamp
ClockHour(timestamp) == timestamp \div MINUTES_PER_HOUR

\* the rows of the last run's output that hold the reading r in series sr
RowsHolding(r, sr) ==
    {o \in lastAgg.output :
        /\ o.patient_id = r.patient_id
        /\ o.biometric_type = sr
        /\ o.hour_start = ClockHour(r.timestamp) * MINUTES_PER_HOUR}

\* C14: the hour_start of every aggregate row the job computes or stores is a
\* whole hour; it is the timestamp of each contributing reading cut down to
\* the hour, so two readings of one patient and series share a row exactly
\* when they lie in the same clock hour.
C14_HourStartTruncated ==
    /\ \A r \in summary : r.hour_start % MINUTES_PER_HOUR = 0
    /\ AggAggregated =>
          /\ \A o \in lastAgg.output : o.hour_start % MINUTES_PER_HOUR = 0
          /\ \A r \in biometrics : \A sr \in SeriesOf(r) :
                Cardinality(RowsHolding(r, sr)) = 1
          /\ \A r, q \in biometrics : \A sr \in SeriesOf(r) \cap SeriesOf(q) :
                r.patient_id = q.patient_id =>
                    (RowsHolding(r, sr) = RowsHolding(q, sr)
                        <=> ClockHour(r.timestamp) = ClockHour(q.timestamp))

\* glucose readings of patient 1 at 00:45 and 01:15, half an hour apart, are
\* stored in the rows of 00:00 and 01:00
C14_Witness ==
    /\ lastAgg.outcome = "committed"
    /\ \E r, q \in biometrics :
          /\ r.patient_id = 1 /\ q.patient_id = 1
          /\ r.biometric_type = "glucose" /\ q.biometric_type = "glucose"
          /\ r.value # NULL /\ q.value # NULL
          /\ r.timestamp = 45 /\ q.timestamp = 75
    /\ \E o, p \in summary :
          /\ o.patient_id = 1 /\ p.patient_id = 1
          /\ o.biometric_type = "glucose" /\ p.biometric_type = "glucose"
          /\ o.hour_start = 0 /\ p.hour_start = MINUTES_PER_HOUR
          /\ o.count = 1 /\ p.count = 1

\* the last run loaded its frame
AggLoaded == lastAgg.outcome \in {"noop", "committed", "upsert_failed"}

PressureSeries == {"blood_pressure_systolic", "blood_pressure_diastolic"}

\* the value a stored blood pressure reading has in a series
ComponentOf(r, sr) ==
    IF sr = "blood_pressure_systolic" THEN r.systolic ELSE r.diastolic

\* the frame row that the reading r gives in series sr
EntryOf(r, sr) ==
    [patient_id |-> r.patient_id, biometric_type |-> sr,
     hour_start |-> ClockHour(r.timestamp) * MINUTES_PER_HOUR,
     value |-> ComponentOf(r, sr)]

PressureRows == {r \in biometrics : r.biometric_type = "blood_pressure"}

\* how often the frame of the last run holds the row f
FrameCount(f) == Cardinality({i \in DOMAIN lastAgg.frame : lastAgg.frame[i] = f})

\* how many stored blood pressure readings give the row f
PressureCount(f) ==
    Cardinality({r \in PressureRows :
                    f.biometric_type \in SeriesOf(r) /\ EntryOf(r, f.biometric_type) = f})

\* C15: in the frame that load_biometrics_data returns, a blood_pressure
\* reading with systolic and diastolic gives two rows (one
\* 'blood_pressure_systolic' with the systolic value, one
\* 'blood_pressure_diastolic' with the diastolic value), a reading with only
\* one of them gives one row, a reading with neither gives none, and no row
\* has the type 'blood_pressure'.
C15_PressureExpansion ==
    AggLoaded =>
        /\ \A i \in DOMAIN lastAgg.frame :
              lastAgg.frame[i].biometric_type # "blood_pressure"
        /\ \A i \in DOMAIN lastAgg.frame :
              lastAgg.frame[i].biometric_type \in PressureSeries =>
                  FrameCount(lastAgg.frame[i]) = PressureCount(lastAgg.frame[i])
        /\ \A r \in PressureRows : \A sr \in SeriesOf(r) :
              FrameCount(EntryOf(r, sr)) = PressureCount(EntryOf(r, sr))
        /\ Cardinality({i \in DOMAIN lastAgg.frame :
                           lastAgg.frame[i].biometric_type \in PressureSeries})
              = Cardinality({r \in PressureRows : r.systolic # NULL})
                + Cardinality({r \in PressureRows : r.diastolic # NULL})

\* a reading with both values and a reading with only a systolic value
\* give three frame rows
C15_Witness ==
    /\ AggLoaded
    /\ \E r, q \in PressureRows :
          /\ r.systolic # NULL /\ r.diastolic # NULL
          /\ q.systolic # NULL /\ q.diastolic = NULL
    /\ Len(lastAgg.frame) = 3

\* C16: when the queries of a run return no row, analytics_aggregate_biometrics
\* returns without calling aggregate_hourly or upsert_aggregates and the
\* summary table is as it was before the run.
C16_NoOpOnEmptyFrame ==
    (AggLoaded /\ lastAgg.frame = <<>>) =>
        /\ lastAgg.outcome = "noop"
        /\ lastAgg.calls = <<"load_biometrics_data">>
        /\ lastAgg.commits = 0
        /\ lastAgg.error = "none"
        /\ lastAgg.op = "succeeded"
        /\ summary = lastAgg.before

\* the table holds readings, all without a value, and the summary table
\* holds rows of earlier runs
C16_Witness ==
    /\ lastAgg.outcome = "noop"
    /\ Cardinality(biometrics) = MaxRaw
    /\ summary # {}
    /\ summary = lastAgg.before

\* C17: when the database rejects the upsert, upsert_aggregates rolls back and
\* raises RuntimeError and the summary table is exactly as before the call
\* (none of the run's rows is stored); when it succeeds it commits once and
\* returns the number of aggregate rows it was given.
C17_UpsertFailureAtomic ==
    /\ lastAgg.outcome = "upsert_failed" =>
          /\ lastAgg.rollbacks = 1
          /\ lastAgg.commits = 0
          /\ lastAgg.error = "RuntimeError"
          /\ lastAgg.op = "failed"
          /\ summary = lastAgg.before
    /\ lastAgg.outcome = "committed" =>
          /\ lastAgg.commits = 1
          /\ lastAgg.rollbacks = 0
          /\ lastAgg.error = "none"
          /\ lastAgg.returned = Cardinality(lastAgg.output)

\* a rejected upsert of two rows, one of a key that has a stored row and one
\* of a new key
C17_Witness ==
    /\ lastAgg.outcome = "upsert_failed"
    /\ Cardinality(lastAgg.output) = 2
    /\ \E o \in lastAgg.output : \E b \in summary :
          GroupKey(o) = GroupKey(b) /\ ~SameAggregates(b, o)
    /\ \E o \in lastAgg.output : \A b \in summary : GroupKey(o) # GroupKey(b)

-----------------------------------------------------------------------------
(* More claims about one unit of analysis (SpecUnit)                        *)

\* the last unit got to the analyses of its series
UnitAnalysed == UnitDone /\ lastUnit.analysis # NoAnalysis

\* the analysis results of the last unit with another outcome of the
\* seasonal decomposition
WithSeasonal(outcome) ==
    [lastUnit.analysis EXCEPT !.seasonal_decomposition = outcome]

\* C18: the seasonal decomposition never blocks the classification: a unit
\* whose analyses run gets None or a result from _seasonal_decomposition,
\* never an exception, goes on to _classify_trend and _store_trend, and the
\* label it hands to the store is the one the classifier gives for the same
\* linear trend, percentage change and volatility with a decomposition that
\* returned None and with one that returned a result.
C18_SeasonalAdvisory ==
    /\ (UnitDone /\ lastUnit.n >= 2 /\ ~lastUnit.raised) => UnitAnalysed
    /\ UnitAnalysed =>
          /\ ~lastUnit.raised
          /\ lastUnit.analysis.seasonal_decomposition \in {"None", "Dict"}
          /\ lastUnit.calls =
                <<"_get_measurements", "_linear_trend_analysis",
                  "_percentage_change", "_volatility_analysis",
                  "_seasonal_decomposition", "_classify_trend", "_store_trend">>
          /\ lastUnit.trend = ClassifyTrend(lastUnit.biometric_type, WithSeasonal("None"))
          /\ lastUnit.trend = ClassifyTrend(lastUnit.biometric_type, WithSeasonal("Dict"))

\* a window too short for a decomposition (None), classified and stored as
\* increasing
C18_Witness ==
    /\ UnitAnalysed
    /\ lastUnit.analysis.seasonal_decomposition = "None"
    /\ lastUnit.trend = "increasing"
    /\ lastUnit.store_committed
    /\ \E r \in UnitRows : r.trend = "increasing"

\* the rows of a trend table that belong to other keys than the last unit's
OtherRows(tr) ==
    {r \in tr : ~(r.patient_id = lastUnit.patient_id
                  /\ r.biometric_type = lastUnit.biometric_type)}

\* how the last unit ended
UnitOutcome ==
    IF lastUnit.raised \/ (lastUnit.store_called /\ ~lastUnit.store_committed)
    THEN "failed"
    ELSE IF lastUnit.trend = "insufficient_data" THEN "insufficient_data"
    ELSE "succeeded"

\* C19: analyze_patient_trend(p, t) creates or modifies at most the trend
\* row keyed (p, t): after the call every trend row of another key is as it
\* was before, the key (p, t) has at most one row more than before and only
\* when it had none, and the measurements and the hourly aggregates are as
\* they were, whether the unit succeeded, stored insufficient_data or failed.
C19_UnitTouchesOwnRowOnly ==
    UnitDone =>
        /\ UnitOutcome \in {"succeeded", "insufficient_data", "failed"}
        /\ OtherRows(trends) = OtherRows(lastUnit.before)
        /\ Cardinality(UnitRows) <= Cardinality(UnitRowsBefore) + 1
        /\ UnitRowsBefore # {} => {r.id : r \in UnitRows} = {r.id : r \in UnitRowsBefore}
        /\ UnitOutcome = "failed" /\ ~lastUnit.store_committed => trends = lastUnit.before
        /\ biometrics = UnitBiometrics
        /\ summary = UnitSummary

\* a classified unit that added its row next to the row of another key
C19_Witness ==
    /\ UnitDone
    /\ UnitOutcome = "succeeded"
    /\ lastUnit.n >= 2
    /\ OtherRows(lastUnit.before) # {}
    /\ UnitRowsBefore = {}
    /\ Cardinality(UnitRows) = 1
    /\ biometrics # {}
    /\ summary # {}

-----------------------------------------------------------------------------
(* The generator of _get_patients on its own (SpecPages).  The query has   *)
(* no ORDER BY: the database is free to deliver the rows in another order  *)
(* to each query of the run, and OFFSET/LIMIT cut the page out of the      *)
(* order of that query.                                                    *)

MaxTable == 3

MaxBatchSize == 2

\* the orders in which a query without ORDER BY can deliver the rows of tbl
RowOrders(tbl) ==
    {f \in [1..Cardinality(tbl) -> tbl] :
        \A i, j \in 1..Cardinality(tbl) : i # j => f[i] # f[j]}

PagesInit ==
    /\ cls = ClsIdle
    /\ stats = NoStats
    /\ UnitIdle
    /\ \E k \in 0..MaxTable : patients = 1..k
    /\ batch = NoBatch
    /\ audit = <<>>
    /\ \E batch_size \in 1..MaxBatchSize :
         pager = [pc |-> "query", batch_size |-> batch_size, offset |-> 0,
                  page |-> <<>>, yielded |-> <<>>, fetched |-> <<>>]
    /\ etl = NoEtl
    /\ AggIdle

\* batch = session.query(Patient).offset(offset).limit(batch_size).all();
\* if not batch: break
GetPatientsQuery ==
    /\ pager.pc = "query"
    /\ \E all \in RowOrders(patients) :
         \E page \in {PatientsPageIn(all, pager.offset, pager.batch_size)} :
            pager' = [pager EXCEPT !.pc = IF page = <<>> THEN "done" ELSE "yield",
                                   !.page = page,
                                   !.fetched = @ \o <<Len(page)>>]
    /\ UNCHANGED <<clsVars, unitVars, patients, batch, audit, etl, aggVars>>

\* yield from batch, one patient a step; offset += batch_size after the last
GetPatientsYield ==
    /\ pager.pc = "yield"
    /\ pager' = IF Len(pager.page) > 1
                THEN [pager EXCEPT !.yielded = @ \o <<Head(pager.page)>>,
                                   !.page = Tail(pager.page)]
                ELSE [pager EXCEPT !.yielded = @ \o <<Head(pager.page)>>,
                                   !.page = <<>>, !.pc = "query",
                                   !.offset = @ + pager.batch_size]
    /\ UNCHANGED <<clsVars, unitVars, patients, batch, audit, etl, aggVars>>

PagesNext == GetPatientsQuery \/ GetPatientsYield

SpecPages == PagesInit /\ [][PagesNext]_vars

\* how often the generator has yielded the patient p
TimesYielded(p) ==
    Cardinality({i \in 1..Len(pager.yielded) : pager.yielded[i] = p})

\* C20: _get_patients yields every patient exactly once per run, whatever
\* the number of patients (none, less than a page, whole pages, more): no
\* patient is yielded twice, a finished run has yielded each patient once,
\* no query fetches more than batch_size patients, and the run ends with the
\* first empty page.
C20_EveryPatientOncePerRun ==
    pager # NoPager =>
        /\ \A p \in patients : TimesYielded(p) <= 1
        /\ pager.pc = "done" => \A p \in patients : TimesYielded(p) = 1
        /\ \A i \in 1..Len(pager.fetched) : pager.fetched[i] <= pager.batch_size
        /\ \A i \in 1..Len(pager.fetched) :
              pager.fetched[i] = 0 => (i = Len(pager.fetched) /\ pager.pc = "done")
        /\ pager.pc = "done" => pager.fetched[Len(pager.fetched)] = 0

-----------------------------------------------------------------------------
(* analyze_patient_trend on the biometrics table (SpecWindow): the unit     *)
(* reads its measurements with _get_measurements.  Timestamps and the       *)
(* clock are whole hours.                                                   *)

\* mutant: a row at the cutoff itself is left out
InWindow_Strict(timestamp, now) == timestamp > now - TREND_WINDOW_HOURS

\* cutoff = datetime.now(timezone.utc) - TREND_WINDOW;
\* Biometric.timestamp >= cutoff
InWindow(timestamp, now) == timestamp >= now - TREND_WINDOW_HOURS

\* .order_by(Biometric.timestamp.asc()) of rows with distinct timestamps
RECURSIVE OrderByTimestamp(_)
OrderByTimestamp(rows) ==
    IF rows = {} THEN <<>>
    ELSE LET first == CHOOSE r \in rows : \A q \in rows : r.timestamp <= q.timestamp
         IN  <<first>> \o OrderByTimestamp(rows \ {first})

\* TrendAnalyzer._get_measurements
GetMeasurements(table, patient_id, biometric_type, now) ==
    OrderByTimestamp({b \in table : /\ b.patient_id = patient_id
                                    /\ b.biometric_type = biometric_type
                                    /\ InWindow(b.timestamp, now)})

MaxRows == 3

\* datetime.now() when the unit runs
WindowNow == 8

\* rows the biometrics table can hold: patient, type, timestamp, value,
\* systolic, diastolic.  Hour 2 is older than the window, hour 3 is the
\* cutoff itself.
WindowCandidates ==
    <<<<1, "glucose", 2, 90, NULL, NULL>>,  <<1, "glucose", 2, 150, NULL, NULL>>,
      <<1, "glucose", 3, 90, NULL, NULL>>,  <<1, "glucose", 3, 150, NULL, NULL>>,
      <<1, "glucose", 6, 90, NULL, NULL>>,  <<1, "glucose", 6, 150, NULL, NULL>>,
      <<1, "blood_pressure", 3, NULL, 120, 80>>,
      <<1, "blood_pressure", 3, NULL, NULL, 80>>,
      <<1, "blood_pressure", 6, NULL, 130, 85>>,
      <<1, "blood_pressure", 6, NULL, 120, NULL>>,
      <<2, "glucose", 6, 90, NULL, NULL>>,
      <<1, "weight", 6, 70, NULL, NULL>>>>

WindowRow(i) ==
    Biometric(i, WindowCandidates[i][1], WindowCandidates[i][2], WindowCandidates[i][3],
              WindowCandidates[i][4], WindowCandidates[i][5], WindowCandidates[i][6])

\* uq_patient_type_timestamp
UniqueBiometricKey(table) ==
    \A a, b \in table :
        (a.patient_id = b.patient_id /\ a.biometric_type = b.biometric_type
         /\ a.timestamp = b.timestamp) => a = b

\* the scenario of the specification: five hourly glucose readings of
\* patient 1 inside the window
ExampleReadings == <<90, 95, 100, 150, 200>>

ExampleTable ==
    {Biometric(100 + i, 1, "glucose", WindowNow - TREND_WINDOW_HOURS + i - 1,
               ExampleReadings[i], NULL, NULL) : i \in 1..Len(ExampleReadings)}

WindowTables ==
    {t \in {{WindowRow(i) : i \in S} :
               S \in {T \in SUBSET (1..Len(WindowCandidates)) : Cardinality(T) <= MaxRows}} :
        UniqueBiometricKey(t)}
    \cup {ExampleTable}

\* the trend table before the call: empty, or a row of an earlier run
WindowStores ==
    {{}, {TrendRow(1, 1, "blood_pressure", "stable", 0)},
         {TrendRow(1, 1, "glucose", "stable", 0)}}

WindowInit ==
    /\ cls = ClsIdle
    /\ stats = NoStats
    /\ trends \in WindowStores
    /\ clock = WindowNow
    /\ lastUnit = NoUnit
    /\ race = NoRace
    /\ BatchIdle
    /\ biometrics \in WindowTables
    /\ summary = {}
    /\ lastAgg = NoAgg
    /\ firstAgg = NoFirstAgg
    /\ hourly = NoHourly

\* one call of analyze_patient_trend; the record keeps the rows the query
\* returned and the series derived from them
WindowCall(patient_id, biometric_type) ==
    /\ lastUnit = NoUnit
    /\ \E queryFault \in BOOLEAN, fault \in BOOLEAN :
         \E rows \in {IF queryFault THEN <<>>
                      ELSE GetMeasurements(biometrics, patient_id, biometric_type, clock)} :
         \E res \in {AnalyzePatientTrend(trends, patient_id, biometric_type,
                                          [ok |-> ~queryFault, rows |-> rows],
                                          fault, clock)} :
             /\ trends' = res.trends
             /\ lastUnit' = UnitRecord(patient_id, biometric_type, trends, clock, res)
                            @@ [rows   |-> rows,
                                values |-> IF res.analysis # NoAnalysis
                                           THEN ExtractValues(biometric_type, rows)
                                           ELSE <<>>]
    /\ clock' = clock + 1
    /\ UNCHANGED <<race, clsVars, batchVars, aggVars>>

WindowNext == \E patient_id \in UnitPatients, biometric_type \in BiometricTypeSet :
                  WindowCall(patient_id, biometric_type)

SpecWindow == WindowInit /\ [][WindowNext]_vars

\* the measurements of the last unit's patient and type that are not older
\* than the window
RowsInWindow ==
    {b \in biometrics : /\ b.patient_id = lastUnit.patient_id
                        /\ b.biometric_type = lastUnit.biometric_type
                        /\ b.timestamp >= lastUnit.now - TREND_WINDOW_HOURS}

\* the unit got its measurements (the query did not fail)
WindowQueried == UnitDone /\ lastUnit.n >= 0

\* C21: the series analysed for (patient, type) is made of exactly the
\* measurements of that patient and type that are not older than the window,
\* each once, in ascending timestamp order, and its value is
\* (systolic + diastolic) / 2 for blood_pressure and the measurement's value
\* for glucose and weight.
C21_SeriesOfWindow ==
    WindowQueried =>
        /\ SeqToSet(lastUnit.rows) = RowsInWindow
        /\ Len(lastUnit.rows) = Cardinality(RowsInWindow)
        /\ lastUnit.n = Len(lastUnit.rows)
        /\ \A i \in 1..(Len(lastUnit.rows) - 1) :
              lastUnit.rows[i].timestamp < lastUnit.rows[i + 1].timestamp
        /\ UnitAnalysed =>
              /\ Len(lastUnit.values) = Len(lastUnit.rows)
              /\ \A i \in 1..Len(lastUnit.rows) :
                    IF lastUnit.biometric_type = "blood_pressure"
                    THEN RatEq(RatMul(lastUnit.values[i], RatOfInt(2)),
                               RatOfInt(lastUnit.rows[i].systolic
                                        + lastUnit.rows[i].diastolic))
                    ELSE lastUnit.values[i] = RatOfInt(lastUnit.rows[i].value)

\* a blood pressure series of two readings, the first at the cutoff itself,
\* analysed while the table also holds a row of another type
C21_Witness ==
    /\ UnitAnalysed
    /\ lastUnit.biometric_type = "blood_pressure"
    /\ Len(lastUnit.rows) = 2
    /\ lastUnit.rows[1].timestamp = lastUnit.now - TREND_WINDOW_HOURS
    /\ lastUnit.values = <<RatOfInt(100), Rat(215, 2)>>
    /\ \E b \in biometrics : b.biometric_type # "blood_pressure"

\* the population variance of a series
PopulationVariance(values) ==
    RatDiv(SumSqDev(values, Mean(values)), RatOfInt(Len(values)))

\* population standard deviation / mean > bound, for a bound >= 0, decided
\* on the squares
CoefficientOfVariationExceeds(values, bound) ==
    /\ RatGt(Mean(values), Zero)
    /\ RatGt(PopulationVariance(values),
             RatMul(RatMul(bound, bound), RatMul(Mean(values), Mean(values))))

\* the unit analysed the five readings of the scenario
ExampleAnalysed ==
    /\ UnitAnalysed
    /\ lastUnit.patient_id = 1 /\ lastUnit.biometric_type = "glucose"
    /\ lastUnit.values = [i \in 1..Len(ExampleReadings) |-> RatOfInt(ExampleReadings[i])]

\* C22: a glucose series whose coefficient of variation (population standard
\* deviation over mean) exceeds 0.20 is labelled volatile whatever its slope,
\* and that label is what a committed store holds for the key; the readings
\* 90, 95, 100, 150, 200 at hourly timestamps inside the window are such a
\* series.
C22_VolatileGlucose ==
    /\ (UnitAnalysed /\ lastUnit.biometric_type = "glucose"
        /\ CoefficientOfVariationExceeds(lastUnit.values, Rat(20, 100))) =>
           /\ lastUnit.trend = "volatile"
           /\ lastUnit.store_committed => \A r \in UnitRows : r.trend = "volatile"
    /\ ExampleAnalysed =>
           /\ CoefficientOfVariationExceeds(lastUnit.values, Rat(20, 100))
           /\ lastUnit.trend = "volatile"

\* the scenario, analysed and stored as volatile on a rising line
C22_Witness ==
    /\ ExampleAnalysed
    /\ RatGt(lastUnit.analysis.linear_trend.slope, Zero)
    /\ lastUnit.store_committed
    /\ \E r \in UnitRows : r.trend = "volatile"

\* the last unit failed before it called _store_trend
FailedBeforeStore == UnitDone /\ lastUnit.raised /\ ~lastUnit.store_called

\* the window of the last unit holds enough blood pressure rows, one of them
\* without systolic or diastolic
NullPressureInWindow ==
    /\ WindowQueried
    /\ lastUnit.biometric_type = "blood_pressure"
    /\ Len(lastUnit.rows) >= MIN_DATA_POINTS
    /\ \E i \in 1..Len(lastUnit.rows) :
          lastUnit.rows[i].systolic = NULL \/ lastUnit.rows[i].diastolic = NULL

\* C28: a unit that fails before a label is stored leaves the trend table as
\* it was: the row of its key keeps its trend and analyzed_at, no row is
\* created, no other row changes, and the exception is one the loop of
\* analyze_all_patients catches at that unit.  A window with a blood
\* pressure row that lacks systolic or diastolic is such a failure.
C28_FailureLeavesRow ==
    /\ FailedBeforeStore =>
          /\ trends = lastUnit.before
          /\ UnitRows = UnitRowsBefore
          /\ ~ExceptionEscapes(lastUnit.raised)
    /\ NullPressureInWindow => FailedBeforeStore

\* a blood pressure unit that failed on a row without systolic, the row an
\* earlier run stored for the key still in place
C28_Witness ==
    /\ NullPressureInWindow
    /\ FailedBeforeStore
    /\ UnitRows = {TrendRow(1, 1, "blood_pressure", "stable", 0)}

-----------------------------------------------------------------------------
(* The statistics helpers on their own (SpecStats): _percentage_change,     *)
(* _volatility_analysis, _linear_trend_analysis and the classification of   *)
(* a series, each called once on a series drawn from a bounded set.         *)

\* np.mean of a series of binary64 values.  A value is held by its 53-bit
\* significand, an integer 2^52 <= M < 2^53 written <<hi, lo>> = hi * LIMB + lo
\* in two limbs of 27 bits; a sum of a few such values is an integer of the
\* same unit (one unit in the last place of the values) and is rounded to 53
\* significant bits, ties to even, after every addition.
LIMB == 134217728

\* 2^26: a two-limb integer below 2^53 has hi < SIGNIFICAND_HI
SIGNIFICAND_HI == 67108864

BigNorm(hi, lo) == <<hi + (lo \div LIMB), lo % LIMB>>

BigAdd(a, b) == BigNorm(a[1] + b[1], a[2] + b[2])

BigMulSmall(a, k) == BigNorm(a[1] * k, a[2] * k)

\* a - b for two integers that lie close together
BigDiff(a, b) == (a[1] - b[1]) * LIMB + (a[2] - b[2])

\* quotient and remainder of a by a small n
BigDivMod(a, n) ==
    [q |-> <<a[1] \div n, ((a[1] % n) * LIMB + a[2]) \div n>>,
     r |-> ((a[1] % n) * LIMB + a[2]) % n]

\* a / n rounded to the nearest integer, ties to the even one
BigDivRound(a, n) ==
    LET d == BigDivMod(a, n)
    IN  IF 2 * d.r > n \/ (2 * d.r = n /\ d.q[2] % 2 = 1)
        THEN BigNorm(d.q[1], d.q[2] + 1)
        ELSE d.q

\* the spacing of the binary64 numbers at an integer with high limb hi
RECURSIVE Spacing(_)
Spacing(hi) == IF hi < SIGNIFICAND_HI THEN 1 ELSE 2 * Spacing(hi \div 2)

\* the binary64 number nearest to the integer a
FloatRound(a) == BigMulSmall(BigDivRound(a, Spacing(a[1])), Spacing(a[1]))

\* np.add.reduce over n copies of the value with significand m: a loop of
\* rounded additions (n < 8, below the block size of the pairwise sum)
RECURSIVE FloatSumOfCopies(_, _)
FloatSumOfCopies(m, n) ==
    IF n = 1 THEN m ELSE FloatRound(BigAdd(FloatSumOfCopies(m, n - 1), m))

\* mutant: arithmetic without rounding, the mean of n copies of a value is
\* the value
FloatMeanOfCopies_Exact(m, n) == m

\* np.mean: the rounded sum divided by n, rounded; the quotient lies in the
\* binade of the values, where the spacing is one unit
FloatMeanOfCopies(m, n) == BigDivRound(FloatSumOfCopies(m, n), n)

\* the significands of the binary64 numbers nearest to the decimal readings
\* of the harness: 10.0 = 0x1.4p+3, 30.0 = 0x1.ep+4,
\* 30.1 = 0x1.e19999999999ap+4, 30.4 = 0x1.e666666666666p+4
DoubleSignificand(value) ==
    CASE RatAbs(value) = RatOfInt(10) -> <<41943040, 0>>
      [] RatAbs(value) = RatOfInt(30) -> <<62914560, 0>>
      [] RatAbs(value) = Rat(301, 10) -> <<63124275, 26843546>>
      [] RatAbs(value) = Rat(304, 10) -> <<63753420, 107374182>>

\* np.mean(y) - y[0] for a series y of n copies of one value, in units of
\* the last place of the value
MeanErrorOfCopies(value, n) ==
    IF value = Zero THEN 0
    ELSE BigDiff(FloatMeanOfCopies(DoubleSignificand(value), n),
                 DoubleSignificand(value))

IsConstantSeries(values) == \A i \in 1..Len(values) : values[i] = values[1]

\* how far, in units of the last place, the intercept that np.linalg.lstsq
\* returns for a constant series may lie from the value of the series
LstsqUlps == 1

\* _calculate_r_squared on a constant series of n values and the line with
\* slope 0 and an intercept eps units from the value: ss_res = n * eps^2,
\* ss_tot = n * (np.mean(y) - y[0])^2, both in squared units of the last
\* place
CalculateRSquaredOfConstant(value, n, eps) ==
    RSquaredOf(RatOfInt(n * eps * eps),
               RatOfInt(n * MeanErrorOfCopies(value, n) * MeanErrorOfCopies(value, n)))

\* _linear_trend_analysis in binary64.  A series that is not constant has
\* ss_tot > 0 in either arithmetic and is fitted as LinearTrendAnalysis
\* does; on a constant series the test ss_tot != 0 is decided by the
\* rounded mean.
LinearTrendAnalysisFloat(timestamps, values, eps) ==
    IF IsConstantSeries(values)
    THEN [slope     |-> Zero,
          intercept |-> values[1],
          r_squared |-> CalculateRSquaredOfConstant(values[1], Len(values), eps)]
    ELSE LinearTrendAnalysis(timestamps, values)

MaxLen == 3

StatValues == {-10, 0, 10, 30}

\* readings with a decimal fraction, which binary64 holds rounded
StatDecimals == {Rat(301, 10), Rat(304, 10)}

\* the series of at most MaxLen values
StatSeries ==
    UNION {[1..n -> {RatOfInt(v) : v \in StatValues}] : n \in 0..MaxLen}
    \cup {[i \in 1..n |-> d] : n \in MIN_DATA_POINTS..MaxLen, d \in StatDecimals}

\* timestamps of a series of n points: every hour, or the last point an
\* hour late
StatTimestamps(n) ==
    {[i \in 1..n |-> i - 1], [i \in 1..n |-> IF i = n THEN i ELSE i - 1]}

StatsReady(values, timestamps) ==
    [pc |-> "ready", values |-> values, timestamps |-> timestamps,
     op |-> "none", type |-> "none", out |-> "none"]

StatsInit ==
    /\ cls = ClsIdle
    /\ \E values \in StatSeries :
         \E timestamps \in StatTimestamps(Len(values)) :
            stats = StatsReady(values, timestamps)
    /\ UnitIdle
    /\ BatchIdle
    /\ AggIdle

StatsReturn(op, type, out) ==
    /\ stats' = [stats EXCEPT !.pc = "done", !.op = op, !.type = type, !.out = out]
    /\ UNCHANGED <<cls, unitVars, batchVars, aggVars>>

\* self._percentage_change(values)
PercentageChangeCall ==
    /\ stats.pc = "ready"
    /\ StatsReturn("_percentage_change", "none", PercentageChange(stats.values))

\* self._volatility_analysis(values), on the series the unit can pass (the
\* unit returns before the analyses when it has less than two measurements)
VolatilityAnalysisCall ==
    /\ stats.pc = "ready"
    /\ Len(stats.values) >= MIN_DATA_POINTS
    /\ StatsReturn("_volatility_analysis", "none", VolatilityAnalysis(stats.values))

\* the four analyses and _classify_trend on a series of one type
ClassifySeriesCall(biometric_type) ==
    /\ stats.pc = "ready"
    /\ Len(stats.values) >= MIN_DATA_POINTS
    /\ StatsReturn("_classify_trend", biometric_type,
                   ClassifyTrend(biometric_type,
                                 RunAnalyses(stats.timestamps, stats.values)))

\* self._linear_trend_analysis(timestamps, values)
LinearTrendAnalysisCall ==
    /\ stats.pc = "ready"
    /\ Len(stats.values) >= MIN_DATA_POINTS
    /\ \E eps \in -LstsqUlps..LstsqUlps :
          StatsReturn("_linear_trend_analysis", "none",
                      LinearTrendAnalysisFloat(stats.timestamps, stats.values, eps))

StatsNext ==
    \/ PercentageChangeCall
    \/ VolatilityAnalysisCall
    \/ LinearTrendAnalysisCall
    \/ \E biometric_type \in BiometricTypeSet : ClassifySeriesCall(biometric_type)

SpecStats == StatsInit /\ [][StatsNext]_vars

StatsReturned(op) == stats.pc = "done" /\ stats.op = op

\* C23: _percentage_change returns (last - first) / first * 100 for a series
\* of at least 2 values whose first value is not 0, and 0 for a series of
\* fewer than 2 values or with first value 0.
C23_PercentageChange ==
    StatsReturned("_percentage_change") =>
        IF Len(stats.values) >= 2 /\ stats.values[1] # Zero
        THEN RatEq(RatMul(stats.out, stats.values[1]),
                   RatMul(RatSub(stats.values[Len(stats.values)], stats.values[1]),
                          RatOfInt(100)))
        ELSE stats.out = Zero

\* 10 -> 30 is a change of +200 percent
C23_Witness ==
    /\ StatsReturned("_percentage_change")
    /\ stats.values = <<RatOfInt(10), RatOfInt(0), RatOfInt(30)>>
    /\ stats.out = RatOfInt(200)

\* C24: _volatility_analysis returns stddev / mean (population standard
\* deviation), and 0 when the mean is 0; a series with mean 0 is never
\* classified volatile.
C24_VolatilityOfZeroMean ==
    /\ StatsReturned("_volatility_analysis") =>
          IF RatEq(Mean(stats.values), Zero)
          THEN stats.out.sign = 0 /\ stats.out.sq = Zero
          ELSE /\ RatEq(RatMul(stats.out.sq,
                               RatMul(Mean(stats.values), Mean(stats.values))),
                        PopulationVariance(stats.values))
               /\ stats.out.sign = IF RatEq(PopulationVariance(stats.values), Zero)
                                   THEN 0 ELSE Sgn(Mean(stats.values)[1])
    /\ (StatsReturned("_classify_trend") /\ RatEq(Mean(stats.values), Zero)) =>
          stats.out # "volatile"

\* the series -10, 10 has mean 0 and a spread; it is classified, and not as
\* volatile
C24_Witness ==
    /\ StatsReturned("_classify_trend")
    /\ stats.values = <<RatOfInt(-10), RatOfInt(10)>>
    /\ stats.out = "increasing"

\* C25: for every series of at least 2 points the r_squared that
\* _linear_trend_analysis returns lies in [0, 1], and it is exactly 0 when
\* all values of the series are equal.
C25_RSquaredInUnitInterval ==
    StatsReturned("_linear_trend_analysis") =>
        /\ ~RatLt(stats.out.r_squared, Zero)
        /\ ~RatGt(stats.out.r_squared, RatOfInt(1))
        /\ IsConstantSeries(stats.values) => stats.out.r_squared = Zero

-----------------------------------------------------------------------------
(* _store_trend in concurrent sessions (SpecRace): several runs store a     *)
(* label for the same (patient_id, biometric_type).  trends is the          *)
(* committed table; a session reads committed rows (READ COMMITTED) and     *)
(* holds its INSERT or UPDATE uncommitted between the flush and the commit  *)
(* that session.commit() performs.                                          *)

NumRuns == 2

Runs == 1..NumRuns

\* the key every run stores
RacePatient == 1

RaceType == "glucose"

\* the labels the runs computed
RaceLabels == {"increasing", "insufficient_data"}

\* the table before the runs: empty, a row of the key, a row of another key
RaceStores ==
    {{}, {TrendRow(1, RacePatient, RaceType, "stable", 0)},
         {TrendRow(1, 2, "weight", "stable", 0)}}

RunReady(label) ==
    [pc |-> "query", label |-> label, found |-> {}, op |-> "none", at |-> 0,
     outcome |-> "none", raised |-> FALSE]

RaceInit ==
    /\ cls = ClsIdle
    /\ stats = NoStats
    /\ trends \in RaceStores
    /\ clock = 1
    /\ lastUnit = NoUnit
    /\ race \in {[runs |-> f] : f \in [Runs -> {RunReady(l) : l \in RaceLabels}]}
    /\ BatchIdle
    /\ AggIdle

\* mutant: the table has no unique constraint on the key
UniqueViolation_NoConstraint(tr, patient_id, biometric_type) == FALSE

\* uq_patient_biometric_trend rejects an INSERT for a key that has a
\* committed row
UniqueViolation(tr, patient_id, biometric_type) ==
    TrendRowsOf(tr, patient_id, biometric_type) # {}

\* the other sessions that hold an uncommitted write of kind op
Holding(r, op) ==
    {o \in Runs \ {r} : race.runs[o].pc = "commit" /\ race.runs[o].op = op}

\* session.query(BiometricTrend).filter_by(...).one_or_none(), then
\* now = datetime.now(timezone.utc)
StoreQuery(r) ==
    /\ race.runs[r].pc = "query"
    /\ race' = [race EXCEPT !.runs[r].pc = "flush",
                            !.runs[r].found = TrendRowsOf(trends, RacePatient, RaceType),
                            !.runs[r].at = clock]
    /\ clock' = clock + 1
    /\ UNCHANGED <<trends, lastUnit, clsVars, batchVars, aggVars>>

\* session.commit(), the flush: the INSERT of the else branch or the UPDATE
\* of the if branch reaches the database.  It waits while another session
\* holds an uncommitted INSERT of the key (an UPDATE of the row); an INSERT
\* for a key with a committed row raises IntegrityError, which the except
\* of _store_trend catches: logged, rolled back, nothing raised.
StoreFlush(r) ==
    /\ race.runs[r].pc = "flush"
    /\ IF race.runs[r].found = {}
       THEN /\ Holding(r, "insert") = {}
            /\ race' = IF UniqueViolation(trends, RacePatient, RaceType)
                       THEN [race EXCEPT !.runs[r].pc = "done",
                                         !.runs[r].outcome = "rolled_back"]
                       ELSE [race EXCEPT !.runs[r].pc = "commit",
                                         !.runs[r].op = "insert"]
       ELSE /\ Holding(r, "update") = {}
            /\ race' = [race EXCEPT !.runs[r].pc = "commit", !.runs[r].op = "update"]
    /\ UNCHANGED <<trends, clock, lastUnit, clsVars, batchVars, aggVars>>

\* session.commit(), the commit: the write becomes visible.  An UPDATE
\* addresses the row by the primary key it was loaded with.
StoreCommit(r) ==
    /\ race.runs[r].pc = "commit"
    /\ trends' = UpsertTrendRecord(
                     trends,
                     {q \in trends : q.id \in {f.id : f \in race.runs[r].found}},
                     RacePatient, RaceType, race.runs[r].label, race.runs[r].at)
    /\ race' = [race EXCEPT !.runs[r].pc = "done", !.runs[r].outcome = "committed"]
    /\ UNCHANGED <<clock, lastUnit, clsVars, batchVars, aggVars>>

RaceNext == \E r \in Runs : StoreQuery(r) \/ StoreFlush(r) \/ StoreCommit(r)

SpecRace == RaceInit /\ [][RaceNext]_vars

RaceRows == TrendRowsOf(trends, RacePatient, RaceType)

RaceOver == race # NoRace /\ \A r \in Runs : race.runs[r].pc = "done"

\* C26: when runs execute _store_trend concurrently for one key, none of
\* them raises, none waits forever, the table never holds more than one row
\* for the key, and when all are done the key has one row, with the label
\* of a run that committed.
C26_ConcurrentStore ==
    race # NoRace =>
        /\ \A r \in Runs : ~race.runs[r].raised
        /\ Cardinality(RaceRows) <= 1
        /\ UniqueTrendKey(trends)
        /\ ~RaceOver => ENABLED RaceNext
        /\ RaceOver =>
              /\ Cardinality(RaceRows) = 1
              /\ \E r \in Runs :
                    /\ race.runs[r].outcome = "committed"
                    /\ \A row \in RaceRows : row.trend = race.runs[r].label

\* both runs found no row and took the insert branch with different labels;
\* one committed, the other was rejected and rolled back
C26_Witness ==
    /\ RaceOver
    /\ \A r \in Runs : race.runs[r].found = {}
    /\ race.runs[1].label # race.runs[2].label
    /\ \E r \in Runs : race.runs[r].outcome = "rolled_back"
    /\ Cardinality(RaceRows) = 1

-----------------------------------------------------------------------------
(* The aggregation job next to the API that changes the readings            *)
(* (SpecSync): from empty tables, readings are written with upsert_biometric *)
(* and removed with delete_biometric between runs of the job.               *)

MaxBiometricId == 2

\* the id the sequence of the biometrics table hands to an inserted row
NextBiometricId(table) ==
    IF table = {} THEN 1
    ELSE 1 + (CHOOSE m \in {r.id : r \in table} : \A r \in table : r.id <= m)

\* the bodies of the upsert requests: type, timestamp, value, systolic,
\* diastolic (00:15 and 01:15)
SyncRequests ==
    {<<"glucose", 15, 10, NULL, NULL>>, <<"glucose", 15, 11, NULL, NULL>>,
     <<"glucose", 75, 10, NULL, NULL>>, <<"blood_pressure", 15, NULL, 12, 8>>}

SyncInit ==
    /\ cls = ClsIdle
    /\ stats = NoStats
    /\ UnitIdle
    /\ BatchIdle
    /\ biometrics = {}
    /\ summary = {}
    /\ lastAgg = NoAgg
    /\ firstAgg = NoFirstAgg
    /\ hourly = NoHourly

\* the row of the table that an upsert of the request for the patient hits
ConflictRows(table, patient_id, req) ==
    {r \in table : /\ r.patient_id = patient_id
                   /\ r.biometric_type = req[1]
                   /\ r.timestamp = req[2]}

\* upsert_biometric: INSERT ... ON CONFLICT (patient_id, biometric_type,
\* timestamp) DO UPDATE SET the fields of the request, commit
UpsertBiometric(patient_id, req) ==
    /\ IF ConflictRows(biometrics, patient_id, req) # {}
       THEN biometrics' =
                (biometrics \ ConflictRows(biometrics, patient_id, req))
                \cup {[r EXCEPT !.value = req[3], !.systolic = req[4],
                                !.diastolic = req[5]] :
                         r \in ConflictRows(biometrics, patient_id, req)}
       ELSE /\ NextBiometricId(biometrics) <= MaxBiometricId
            /\ biometrics' =
                   biometrics \cup {Biometric(NextBiometricId(biometrics), patient_id,
                                              req[1], req[2], req[3], req[4], req[5])}
    /\ biometrics' # biometrics
    /\ UNCHANGED <<clsVars, unitVars, batchVars, summary, lastAgg, firstAgg, hourly>>

\* delete_biometric: db.delete(record), commit (404 when there is no such
\* record)
DeleteBiometric(biometric_id) ==
    /\ \E r \in biometrics : r.id = biometric_id
    /\ biometrics' = {r \in biometrics : r.id # biometric_id}
    /\ UNCHANGED <<clsVars, unitVars, batchVars, summary, lastAgg, firstAgg, hourly>>

SyncNext ==
    \/ AggregateBiometricsOp
    \/ \E req \in SyncRequests : UpsertBiometric(1, req)
    \/ \E biometric_id \in 1..MaxBiometricId : DeleteBiometric(biometric_id)

SpecSync == SyncInit /\ [][SyncNext]_vars

\* the last run completed and the readings are those it loaded
RunUpToDate ==
    /\ lastAgg.outcome \in {"noop", "committed"}
    /\ lastAgg.frame = LoadBiometricsData(biometrics)

\* C27: after a completed run of the aggregation job the summary table
\* agrees with the readings: it has a row for a key exactly when the
\* biometrics table holds a non-null reading of that group, and the row
\* carries the min, max, avg and count of the current readings, also after
\* readings were deleted or overwritten between two runs.
C27_SummaryAgreesWithRaw ==
    RunUpToDate =>
        /\ {GroupKey(r) : r \in summary}
              = {GroupKey(o) : o \in AggregateHourly(LoadBiometricsData(biometrics))}
        /\ \A r \in summary :
              \A o \in AggregateHourly(LoadBiometricsData(biometrics)) :
                  GroupKey(r) = GroupKey(o) => SameAggregates(r, o)

-----------------------------------------------------------------------------
(* process_biometrics on one file (SpecEtl): the validated records of the   *)
(* file arrive in chunks; all chunks are loaded in one session, which is    *)
(* committed when the last chunk is through.  Rows are written without      *)
(* their id, which plays no part here.                                      *)

MaxChunks == 2

MaxChunkRecords == 2

EtlRecord(timestamp, value) ==
    [patient_id |-> 1, biometric_type |-> "glucose", timestamp |-> timestamp,
     value |-> value]

\* the columns of the unique constraint of the biometrics table
EtlKey(rec) == <<rec.patient_id, rec.biometric_type, rec.timestamp>>

\* the validated records a file may hold (00:15 and 01:15) and the rows the
\* table may hold before the file is processed
EtlFileRecords == {EtlRecord(15, 100), EtlRecord(75, 100)}

EtlStoredRows == {EtlRecord(15, 90), EtlRecord(75, 90)}

EtlChunks == UNION {[1..n -> EtlFileRecords] : n \in 0..MaxChunkRecords}

EtlFiles == UNION {[1..n -> EtlChunks] : n \in 0..MaxChunks}

EtlInit ==
    /\ cls = ClsIdle
    /\ stats = NoStats
    /\ UnitIdle
    /\ patients = {}
    /\ batch = NoBatch
    /\ audit = <<>>
    /\ pager = NoPager
    /\ \E file \in EtlFiles, table \in SUBSET EtlStoredRows :
         etl = [pc |-> "chunks", file |-> file, chunks |-> file, table |-> table,
                session |-> {}, fallbacks |-> 0]
    /\ AggIdle

\* session.bulk_insert_mappings(Biometric, records) raises IntegrityError:
\* a record has the key of a row the session sees or of another record
BulkInsertFails(table, session, records) ==
    \/ \E i \in 1..Len(records) :
          \E r \in table \cup session : EtlKey(r) = EtlKey(records[i])
    \/ \E i, j \in 1..Len(records) :
          i < j /\ EtlKey(records[i]) = EtlKey(records[j])

\* for rec in records: INSERT ... ON CONFLICT DO UPDATE; session.commit()
RECURSIVE UpsertEach(_, _)
UpsertEach(table, records) ==
    IF records = <<>> THEN table
    ELSE UpsertEach({r \in table : EtlKey(r) # EtlKey(Head(records))}
                        \cup {Head(records)},
                    Tail(records))

\* upsert_biometric_records: the committed rows and the rows of the open
\* transaction after the call
UpsertBiometricRecords(table, session, records) ==
    IF BulkInsertFails(table, session, records)
    THEN [table |-> UpsertEach(table, records), session |-> {}, fallback |-> 1]
    ELSE [table |-> table,
          session |-> session \cup {records[i] : i \in 1..Len(records)},
          fallback |-> 0]

\* one turn of: for chunk in chunks: ... upsert_biometric_records(session, records)
ProcessChunk ==
    /\ etl.pc = "chunks"
    /\ etl.chunks # <<>>
    /\ \E res \in {UpsertBiometricRecords(etl.table, etl.session, Head(etl.chunks))} :
         etl' = [etl EXCEPT !.chunks = Tail(etl.chunks),
                            !.table = res.table,
                            !.session = res.session,
                            !.fallbacks = @ + res.fallback]
    /\ UNCHANGED <<clsVars, unitVars, patients, batch, audit, pager, aggVars>>

\* the end of the with block of get_db_session: session.commit()
SessionCommit ==
    /\ etl.pc = "chunks"
    /\ etl.chunks = <<>>
    /\ etl' = [etl EXCEPT !.pc = "done",
                          !.table = etl.table \cup etl.session,
                          !.session = {}]
    /\ UNCHANGED <<clsVars, unitVars, patients, batch, audit, pager, aggVars>>

EtlNext == ProcessChunk \/ SessionCommit

SpecEtl == EtlInit /\ [][EtlNext]_vars

\* C29: once the session of a file has finished, every validated record of
\* every chunk of the file is stored in the biometrics table, also when a
\* later chunk hit a duplicate and was loaded by the fallback (rollback,
\* then one upsert and commit per record).
C29_EveryRecordStored ==
    etl.pc = "done" =>
        \A i \in 1..Len(etl.file) :
            \A j \in 1..Len(etl.file[i]) :
                \E r \in etl.table : EtlKey(r) = EtlKey(etl.file[i][j])

-----------------------------------------------------------------------------
(* SpecDecimals: aggregate_hourly on frames whose values carry more than   *)
(* two decimals (value is a Float column; a weight given in lb is stored   *)
(* as a product with 0.453592). The values are written as exact fractions. *)

DecimalKeys == {<<1, "weight", 0>>, <<1, "weight", 60>>}

\* 70.126, 70.127 and 70.13: no mean of up to five of them lies half way
\* between two hundredths, where the binary value would decide the rounding
DecimalValues == {Rat(70126, 1000), Rat(70127, 1000), Rat(7013, 100)}

DecimalUniverse ==
    {FrameRow(k[1], k[2], k[3], v) : k \in DecimalKeys, v \in DecimalValues}

DecimalFrames == UNION {[1..n -> DecimalUniverse] : n \in 1..MaxFrame}

RatSeqMin(s) ==
    CHOOSE v \in {s[i] : i \in DOMAIN s} : \A i \in DOMAIN s : ~RatLt(s[i], v)

RatSeqMax(s) ==
    CHOOSE v \in {s[i] : i \in DOMAIN s} : \A i \in DOMAIN s : ~RatLt(v, s[i])

\* min, max, mean and count of one group; only the mean is rounded
AggregateRowOfDecimals(key, present) ==
    [patient_id |-> key[1], biometric_type |-> key[2], hour_start |-> key[3],
     min_value |-> RatSeqMin(present),
     max_value |-> RatSeqMax(present),
     avg_value |-> RoundTo2(Mean(present)),
     count |-> Len(present)]

\* aggregate_hourly on a frame of fractions without missing values
AggregateHourlyOfDecimals(df) ==
    {AggregateRowOfDecimals(key, GroupValues(df, key)) :
        key \in {GroupKey(df[i]) : i \in DOMAIN df}}

DecimalsInit ==
    /\ cls = ClsIdle
    /\ stats = NoStats
    /\ UnitIdle
    /\ BatchIdle
    /\ biometrics = {} /\ summary = {} /\ lastAgg = NoAgg /\ firstAgg = NoFirstAgg
    /\ \E df \in DecimalFrames : hourly = [pc |-> "called", df |-> df, out |-> {}]

\* agg_df = aggregate_hourly(df)
AggregateDecimalsCall ==
    /\ hourly.pc = "called"
    /\ hourly' = [hourly EXCEPT !.pc = "returned",
                                !.out = AggregateHourlyOfDecimals(hourly.df)]
    /\ UNCHANGED <<clsVars, unitVars, batchVars, biometrics, summary, lastAgg, firstAgg>>

DecimalsNext == AggregateDecimalsCall

SpecDecimals == DecimalsInit /\ [][DecimalsNext]_vars

\* C30: every row that aggregate_hourly produces has
\* min_value <= avg_value <= max_value, also after avg_value was rounded to
\* two decimals, for groups whose values differ by less than 0.01 and for
\* groups of equal values with more than two decimals.
C30_AvgBetweenMinAndMax ==
    hourly.pc = "returned" =>
        \A o \in hourly.out :
            /\ ~RatLt(o.avg_value, o.min_value)
            /\ ~RatLt(o.max_value, o.avg_value)
====
